---- MODULE Spec2Model ----
(***************************************************************************)
(* The structural JSON decoder / encoder of common/json.py, the Result     *)
(* substrate of common/result.py, the command-execution glue of            *)
(* common/command/execute_command_handler.py and the command-line parser   *)
(* of common/arguments.py.                                                 *)
(*                                                                         *)
(* Representation.  A Python value is a record whose field k is the name   *)
(* of its runtime type (type(v).__name__); every kind has its own payload  *)
(* field, so two values of different kinds are never equal.  A Python str  *)
(* is a sequence of text tokens (single characters wherever the text is    *)
(* inspected, as in Decimal(...)), and so is every message.  A dict is the *)
(* sequence of its entries in iteration order.                             *)
(***************************************************************************)
EXTENDS Integers, Sequences, FiniteSets, TLC

VARIABLES
    target,       \* the type handed to try_parse_json / parser_for
    value,        \* the Python value handed to to_json (NoValue when decoding a raw input)
    input,        \* the JSON value handed to the parser
    options,      \* the ParsingOptions
    built,        \* what parser_for(target) returned
    outcome,      \* what the decode returned or raised
    ctor_args,    \* the keyword arguments of the outermost record constructor call
    pc,
    request_data, \* the payload given to execute_command_handler
    script,       \* what the handler factory and handle_command will do
    command,      \* the decoded command
    calls,        \* the calls made so far, in order
    response,     \* what execute_command_handler returned or propagated
    cpc,
    chain,        \* the method calls r.m1(f1).m2(f2)... still to be made on a Result, with their callbacks
    trail,        \* the receiver, then what each method call of the chain returned
    xs,           \* the list given to Result.traverse as items
    fn,           \* the callback given to Result.traverse as func
    index,        \* the number of items the loop of traverse has taken
    results,      \* the list traverse accumulates
    returned,     \* what traverse returned
    invoked,      \* the callback applications so far, in order
    rpc,
    cli_config,   \* the argument of create_parser
    arg_parser,   \* the ArgumentParser it returned: its option strings and their actions
    argv,         \* the argument list given to parse_args
    namespace,    \* what parse_args returned, or the exit it made
    apc,
    bound,        \* the bindings given to concrete_type
    generic,      \* the type expression given to concrete_type
    concrete,     \* the class reference given to concrete_type_hints
    resolved,     \* what concrete_type / concrete_type_hints returned or raised
    union_type_subscriptable, \* whether the interpreter lets types.UnionType be subscripted
    tpc,
    max_retries,  \* the bound given to retrying_on_failure
    action,  \* what each successive call of the action does
    retry_count,
    error,  \* the last exception caught
    awaited,  \* the calls of the action so far, in order
    retried,  \* what retrying_on_failure returned or raised
    ypc,
    flow_action,  \* the action given to execute_commit_flow
    environ,  \* the value of GOOGLE_API_KEY in the environment
    locals,  \* api_key, cwd and diff of execute_commit_flow once assigned
    commit_state,  \* the CommitState of the current interaction_loop call
    log,  \* the checks, prompts, LLM calls and git commands run so far, in order
    flow_result,  \* what execute_commit_flow returned or raised
    rounds,  \* the interaction_loop calls so far
    fpc,
    executable,  \* the parts of the resolved sys.executable
    attempts,  \* the update commands run so far with what each gave, in order
    update_result,  \* what update_package returned
    upc

jsonVars == <<target, value, input, options, built, outcome, ctor_args, pc>>
cmdVars == <<request_data, script, command, calls, response, cpc>>
resVars == <<chain, trail, xs, fn, index, results, returned, invoked, rpc>>
argVars == <<cli_config, arg_parser, argv, namespace, apc>>
typVars == <<bound, generic, concrete, resolved, union_type_subscriptable, tpc>>
retryVars == <<max_retries, action, retry_count, error, awaited, retried, ypc>>
flowVars == <<flow_action, environ, locals, commit_state, log, flow_result, rounds, fpc>>
updVars == <<executable, attempts, update_result, upc>>
extVars == <<typVars, retryVars, flowVars, updVars>>
coreVars == <<jsonVars, cmdVars, resVars, argVars>>
butTyp == <<coreVars, retryVars, flowVars, updVars>>
butRetry == <<coreVars, typVars, flowVars, updVars>>
butFlow == <<coreVars, typVars, retryVars, updVars>>
butUpd == <<coreVars, typVars, retryVars, flowVars>>
vars == <<target, value, input, options, built, outcome, ctor_args, pc,
          request_data, script, command, calls, response, cpc,
          chain, trail, xs, fn, index, results, returned, invoked, rpc,
          cli_config, arg_parser, argv, namespace, apc,
          bound, generic, concrete, resolved, union_type_subscriptable, tpc,
          max_retries, action, retry_count, error, awaited, retried, ypc,
          flow_action, environ, locals, commit_state, log, flow_result, rounds, fpc,
          executable, attempts, update_result, upc>>

(***************************************************************************)
(* Bounds of the explored inputs.                                          *)
(***************************************************************************)
MaxInt == 1
MaxListLen == 2
MaxChain == 2
MaxItems == 3
MaxArgs == 3

(***************************************************************************)
(* Python values.                                                          *)
(***************************************************************************)
StrV(s) == [k |-> "str", s |-> s]
IntV(i) == [k |-> "int", i |-> i]
BoolV(b) == [k |-> "bool", b |-> b]
FloatV(w, fr) == [k |-> "float", w |-> w, fr |-> fr]
NoneV == [k |-> "NoneType"]
ListV(l) == [k |-> "list", l |-> l]
DictV(d) == [k |-> "dict", d |-> d]
SetV(e) == [k |-> "set", e |-> e]
DecV(sign, digits, exp) == [k |-> "Decimal", sign |-> sign, digits |-> digits, exp |-> exp]
ObjV(cls, f) == [k |-> "obj", cls |-> cls, f |-> f]
BytesV == [k |-> "bytes"]
Entry(key, val) == [key |-> key, val |-> val]

\* type(v).__name__
TypeName(v) == IF v.k = "obj" THEN v.cls ELSE v.k

\* isinstance(v, cls) for the builtin classes: bool is a subclass of int
isinstance(v, cls) == IF cls = "int" THEN v.k \in {"int", "bool"} ELSE v.k = cls

Min(S) == CHOOSE x \in S : \A y \in S : x <= y

\* key in d / d[key] / d[key] = val, for a dict given as its entry sequence
HasKey(d, key) == \E i \in 1..Len(d) : d[i].key = key
GetItem(d, key) == d[CHOOSE i \in 1..Len(d) : d[i].key = key].val
SetItem(d, key, val) ==
    IF HasKey(d, key)
    THEN [i \in 1..Len(d) |-> IF d[i].key = key THEN Entry(key, val) ELSE d[i]]
    ELSE Append(d, Entry(key, val))

RECURSIVE Join(_, _)
Join(parts, sep) ==
    IF parts = <<>> THEN <<>>
    ELSE IF Len(parts) = 1 THEN parts[1]
    ELSE parts[1] \o <<sep>> \o Join(Tail(parts), sep)

RECURSIVE Hashable(_)
Hashable(v) ==
    IF v.k \in {"list", "dict", "set"} THEN FALSE
    ELSE IF v.k = "obj" THEN \A i \in 1..Len(v.f) : Hashable(v.f[i].val)
    ELSE TRUE

(***************************************************************************)
(* Text conversions: str(int), str(Decimal), Decimal(str), json.dumps.     *)
(***************************************************************************)
Digits == <<"0", "1", "2", "3", "4", "5", "6", "7", "8", "9">>
DigitChar(d) == Digits[d + 1]
IsDigit(c) == \E d \in 0..9 : Digits[d + 1] = c
DigitVal(c) == CHOOSE d \in 0..9 : Digits[d + 1] = c

RECURSIVE IntStr(_)
IntStr(n) ==
    IF n < 0 THEN <<"-">> \o IntStr(0 - n)
    ELSE IF n < 10 THEN <<DigitChar(n)>>
    ELSE IntStr(n \div 10) \o <<DigitChar(n % 10)>>

RECURSIVE Zeros(_)
Zeros(n) == IF n <= 0 THEN <<>> ELSE <<"0">> \o Zeros(n - 1)

DigitChars(ds) == [i \in 1..Len(ds) |-> DigitChar(ds[i])]

\* str(d) of a finite Decimal with coefficient digits d.digits and exponent d.exp
DecimalStr(d) ==
    LET n == Len(d.digits)
        leftdigits == d.exp + n
        dotplace == IF d.exp <= 0 /\ leftdigits > -6 THEN leftdigits ELSE 1
        coef == DigitChars(d.digits)
        intpart == IF dotplace <= 0 THEN <<"0">>
                   ELSE IF dotplace >= n THEN coef \o Zeros(dotplace - n)
                   ELSE SubSeq(coef, 1, dotplace)
        fracpart == IF dotplace <= 0 THEN <<".">> \o Zeros(0 - dotplace) \o coef
                    ELSE IF dotplace >= n THEN <<>>
                    ELSE <<".">> \o SubSeq(coef, dotplace + 1, n)
        e == leftdigits - dotplace
        exppart == IF e = 0 THEN <<>>
                   ELSE <<"E">> \o (IF e > 0 THEN <<"+">> ELSE <<"-">>)
                                \o IntStr(IF e > 0 THEN e ELSE 0 - e)
    IN (IF d.sign = 1 THEN <<"-">> ELSE <<>>) \o intpart \o fracpart \o exppart

RECURSIVE NumOf(_)
NumOf(cs) == IF cs = <<>> THEN 0 ELSE 10 * NumOf(SubSeq(cs, 1, Len(cs) - 1)) + DigitVal(cs[Len(cs)])

RECURSIVE StripZeros(_)
StripZeros(cs) ==
    IF Len(cs) > 1 /\ cs[1] = "0" THEN StripZeros(Tail(cs)) ELSE cs

IndexOf(s, cset) == IF \E i \in 1..Len(s) : s[i] \in cset
                    THEN Min({i \in 1..Len(s) : s[i] \in cset}) ELSE 0

AllDigits(cs) == \A i \in 1..Len(cs) : IsDigit(cs[i])

Raise(exc) == [tag |-> "Raise", exc |-> exc]
IsRaise(x) == "tag" \in DOMAIN x /\ x.tag = "Raise"

\* Decimal(s) for a str s: the decimal it denotes, or decimal.InvalidOperation
Decimal(v) ==
    LET s == v.s
        signed == Len(s) > 0 /\ s[1] \in {"-", "+"}
        body == IF signed THEN Tail(s) ELSE s
        epos == IndexOf(body, {"E", "e"})
        mant == IF epos = 0 THEN body ELSE SubSeq(body, 1, epos - 1)
        expo == IF epos = 0 THEN <<>> ELSE SubSeq(body, epos + 1, Len(body))
        esigned == Len(expo) > 0 /\ expo[1] \in {"-", "+"}
        edigits == IF esigned THEN Tail(expo) ELSE expo
        dot == IndexOf(mant, {"."})
        intpart == IF dot = 0 THEN mant ELSE SubSeq(mant, 1, dot - 1)
        fracpart == IF dot = 0 THEN <<>> ELSE SubSeq(mant, dot + 1, Len(mant))
        valid == /\ AllDigits(intpart) /\ AllDigits(fracpart)
                 /\ Len(intpart) + Len(fracpart) > 0
                 /\ (epos = 0 \/ (Len(edigits) > 0 /\ AllDigits(edigits)))
        e == IF epos = 0 THEN 0
             ELSE IF esigned /\ expo[1] = "-" THEN 0 - NumOf(edigits) ELSE NumOf(edigits)
        coef == StripZeros(intpart \o fracpart)
    IN IF ~valid THEN Raise("InvalidOperation")
       ELSE DecV(IF signed /\ s[1] = "-" THEN 1 ELSE 0,
                [i \in 1..Len(coef) |-> DigitVal(coef[i])],
                e - Len(fracpart))

\* str(v) for the scalars that are interpolated into messages
PyStr(v) ==
    IF v.k = "str" THEN v.s
    ELSE IF v.k = "int" THEN IntStr(v.i)
    ELSE IF v.k = "bool" THEN (IF v.b THEN <<"True">> ELSE <<"False">>)
    ELSE IF v.k = "float" THEN IntStr(v.w) \o <<".">> \o IntStr(v.fr)
    ELSE IF v.k = "Decimal" THEN DecimalStr(v)
    ELSE <<"None">>

\* json.dumps(v) for a JSON value
RECURSIVE dumps(_)
dumps(v) ==
    IF v.k = "str" THEN <<"\"">> \o v.s \o <<"\"">>
    ELSE IF v.k = "int" THEN IntStr(v.i)
    ELSE IF v.k = "bool" THEN (IF v.b THEN <<"true">> ELSE <<"false">>)
    ELSE IF v.k = "float" THEN IntStr(v.w) \o <<".">> \o IntStr(v.fr)
    ELSE IF v.k = "NoneType" THEN <<"null">>
    ELSE IF v.k = "list"
         THEN <<"[">> \o Join([i \in 1..Len(v.l) |-> dumps(v.l[i])], ", ") \o <<"]">>
    ELSE <<"{">> \o Join([i \in 1..Len(v.d) |->
                            dumps(v.d[i].key) \o <<": ">> \o dumps(v.d[i].val)], ", ")
               \o <<"}">>

(***************************************************************************)
(* Type expressions (the values of typing annotations).                    *)
(***************************************************************************)
AnyT == [t |-> "Any"]
StrT == [t |-> "str"]
BoolT == [t |-> "bool"]
FloatT == [t |-> "float"]
IntT == [t |-> "int"]
NoneT == [t |-> "NoneType"]
DecimalT == [t |-> "Decimal"]
BytesT == [t |-> "bytes"]
ListT(e) == [t |-> "list", args |-> <<e>>]
SetT(e) == [t |-> "set", args |-> <<e>>]
DictT(kt, vt) == [t |-> "dict", args |-> <<kt, vt>>]
BareT(origin) == [t |-> origin, args |-> <<>>]
UnionT(members) == [t |-> "Union", args |-> members]
OptionalT(x) == UnionT(<<x, NoneT>>)
LiteralT(vals) == [t |-> "Literal", args |-> vals]
NewTypeT(name, supertype) == [t |-> "NewType", name |-> name, supertype |-> supertype]
ClassT(name) == [t |-> "class", name |-> name]
\* a TypeVar; C[A1, ..., An] for a generic class C; X | Y of classes
\* (types.UnionType); Callable[[P1, ...], R], whose first argument is a plain
\* list; tuple[()], whose argument tuple is empty
TypeVarT(name) == [t |-> "TypeVar", name |-> name]
GenericT(name, args) == [t |-> "class", name |-> name, args |-> args]
UnionTypeT(members) == [t |-> "UnionType", args |-> members]
CallableT(params, ret) == [t |-> "Callable", args |-> <<[t |-> "arglist", items |-> params], ret>>]
EmptyTupleT == [t |-> "tuple", args |-> <<>>, unit |-> TRUE]

\* type(arg) of a literal argument
TypeOf(v) == [t |-> v.k]

Field(name, type) == [name |-> <<name>>, type |-> type, has_default |-> FALSE, default |-> NoneV]
FieldDefault(name, type, default) ==
    [name |-> <<name>>, type |-> type, has_default |-> TRUE, default |-> default]

\* The record classes under test (subclasses of BaseSerializable), by name:
\* their annotated fields in declaration order.
ClassNames == {"Inner", "Outer", "Items", "Value", "Opt", "Def", "Pair", "Money", "Flag", "Bag"}
get_type_hints(cls) ==
    CASE cls = "Inner" -> <<Field("b", IntT)>>
      [] cls = "Outer" -> <<Field("a", ClassT("Inner"))>>
      [] cls = "Items" -> <<Field("items", ListT(IntT))>>
      [] cls = "Value" -> <<Field("value", UnionT(<<IntT, StrT>>))>>
      [] cls = "Opt" -> <<Field("x", OptionalT(StrT))>>
      [] cls = "Def" -> <<FieldDefault("x", OptionalT(StrT), StrV(<<"d">>)),
                          FieldDefault("b", IntT, IntV(0))>>
      [] cls = "Pair" -> <<Field("a", IntT), Field("b", IntT)>>
      [] cls = "Money" -> <<Field("a", DecimalT), Field("x", SetT(StrT))>>
      [] cls = "Flag" -> <<Field("x", UnionT(<<IntT, BoolT>>))>>
      [] cls = "Bag" -> <<Field("a", AnyT), Field("b", DictT(StrT, IntT))>>
      [] cls = "Box" -> <<Field("value", TypeVarT("T")), Field("items", ListT(TypeVarT("T"))),
                          Field("tag", StrT)>>
      [] cls = "Two" -> <<Field("first", TypeVarT("T")), Field("second", DictT(StrT, TypeVarT("U"))),
                          Field("nested", ListT(ListT(TypeVarT("U")))),
                          Field("either", UnionT(<<TypeVarT("T"), TypeVarT("U")>>))>>
      [] cls = "Empty" -> <<>>
      [] cls = "Handler" -> <<Field("on_done", CallableT(<<TypeVarT("T")>>, NoneT))>>
      [] cls = "Maybe" -> <<Field("x", UnionTypeT(<<IntT, NoneT>>))>>
      [] cls = "Plain" -> <<Field("a", IntT), Field("b", OptionalT(StrT))>>
      [] cls = "Unit" -> <<Field("u", EmptyTupleT)>>

\* reflection.concrete_type_hints for a class without generic parameters
concrete_type_hints(cls) == get_type_hints(cls)

(***************************************************************************)
(* common/result.py                                                        *)
(***************************************************************************)
Ok(v) == [tag |-> "Ok", value |-> v]
Err(e) == [tag |-> "Err", error |-> e]

\* common/result.py: Result.map (lines 33-38), Result.map_err (40-45),
\* Result.then (47-52) and Result.traverse (76-86).
\* A receiver whose evaluation raised (tag "Raise") never reaches the method:
\* the exception propagates.
map(self, func(_)) ==
    IF self.tag = "Ok"
    THEN (LET y == func(self.value) IN IF IsRaise(y) THEN y ELSE Ok(y))
    ELSE self

map_err(self, func(_)) == IF self.tag = "Err" THEN Err(func(self.error)) ELSE self

then(self, func(_)) == IF self.tag = "Ok" THEN func(self.value) ELSE self

\* The loop returns at the first item whose func(item) is not Ok (an Err, or
\* an exception that propagates); func is not applied to the items after it.
traverse(items, func(_)) ==
    LET bad == {i \in 1..Len(items) : func(items[i]).tag # "Ok"}
    IN IF bad = {} THEN Ok([i \in 1..Len(items) |-> func(items[i]).value])
       ELSE func(items[Min(bad)])

(***************************************************************************)
(* common/json.py: the parser dispatch table and the parsers.              *)
(* parser_for returns a parser (a closure, here the record of what it      *)
(* captured) or raises; Apply calls a parser on a JSON value.              *)
(***************************************************************************)
ParsingOptions(fill) == [fill_missing_optionals |-> fill]
defaultParsingOptions == ParsingOptions(FALSE)

\* (mutant) every union counts as optional
is_optional_any_union(typ) == typ.t = "Union"

is_optional(typ) == typ.t = "Union" /\ \E i \in 1..Len(typ.args) : typ.args[i].t = "NoneType"

Expected(kind, json) == Err(<<"Expected ", kind, " but found ", TypeName(json)>>)

parse_any(json) == Ok(json)
parse_string(json) == IF isinstance(json, "str") THEN Ok(json) ELSE Expected("str", json)
parse_bool(json) == IF isinstance(json, "bool") THEN Ok(json) ELSE Expected("bool", json)
parse_float(json) == IF isinstance(json, "float") THEN Ok(json) ELSE Expected("float", json)
parse_int(json) == IF isinstance(json, "int") THEN Ok(json) ELSE Expected("int", json)
parse_None(json) == IF isinstance(json, "NoneType") THEN Ok(NoneV) ELSE Expected("None", json)
\* (mutant) a JSON number is read as a decimal through its text
parse_decimal_of_number(json) ==
    IF json.k \in {"int", "float"} THEN Ok(Decimal(StrV(PyStr(json))))
    ELSE map(parse_string(json), Decimal)

parse_decimal(json) == map(parse_string(json), Decimal)

\* a == b on Python values: bool, int and float compare by numeric value
NumKey(v) == IF v.k = "int" THEN <<v.i, 0>>
             ELSE IF v.k = "bool" THEN <<IF v.b THEN 1 ELSE 0, 0>>
             ELSE <<v.w, v.fr>>
PyEq(a, b) == IF a.k \in {"int", "bool", "float"} /\ b.k \in {"int", "bool", "float"}
              THEN NumKey(a) = NumKey(b) ELSE a = b

\* set(lst): TypeError on an unhashable element; equal elements collapse
\* onto the first of them
set(lst) ==
    IF \E i \in 1..Len(lst.l) : ~Hashable(lst.l[i]) THEN Raise("TypeError")
    ELSE SetV({lst.l[i] : i \in {j \in 1..Len(lst.l) :
                                    \A h \in 1..(j - 1) : ~PyEq(lst.l[h], lst.l[j])}})

check_literal(argument, v) ==
    IF PyEq(argument, v) THEN Ok(v)
    ELSE Err(<<"Value mismatch. Expected ">> \o PyStr(argument) \o <<", found ">> \o PyStr(v))

RECURSIVE Flatten(_)
Flatten(ss) == IF ss = <<>> THEN <<>> ELSE Head(ss) \o Flatten(Tail(ss))

\* pydantic's strict validation of one constructor argument: the errors, each
\* with its location.  The parsers hand over values of the declared shape,
\* except that parse_int lets a bool through, which a strict int field rejects.
RECURSIVE strict_errors(_, _, _)
strict_errors(ty, v, loc) ==
    IF ty.t = "int"
    THEN (IF v.k = "int" THEN <<>>
          ELSE <<[loc |-> loc, msg |-> <<"Input should be a valid integer">>]>>)
    ELSE IF ty.t = "list" /\ ty.args # <<>> /\ v.k = "list"
    THEN Flatten([i \in 1..Len(v.l) |-> strict_errors(ty.args[1], v.l[i], loc \o <<IntStr(i - 1)>>)])
    ELSE IF ty.t = "dict" /\ ty.args # <<>> /\ v.k = "dict"
    THEN Flatten([i \in 1..Len(v.d) |->
                    strict_errors(ty.args[2], v.d[i].val, loc \o <<PyStr(v.d[i].key)>>)])
    ELSE IF ty.t = "NewType" THEN strict_errors(ty.supertype, v, loc)
    ELSE <<>>

pretty_loc(loc) == Join([i \in 1..Len(loc) |-> <<"'">> \o (<<>> \o loc[i]) \o <<"'">>], ".")

\* cls(**args) and the rendering of its ValidationError (json.py 113-129)
Construct(cls, args) ==
    LET hints == get_type_hints(cls)
        errs == Flatten([i \in 1..Len(hints) |->
                   IF HasKey(args, hints[i].name)
                   THEN strict_errors(hints[i].type, GetItem(args, hints[i].name), <<hints[i].name>>)
                   ELSE IF hints[i].has_default THEN <<>>
                   ELSE <<[loc |-> <<hints[i].name>>, msg |-> <<"Field required">>]>>])
    IN IF errs = <<>>
       THEN Ok(ObjV(cls, [i \in 1..Len(hints) |->
                Entry(hints[i].name, IF HasKey(args, hints[i].name)
                                     THEN GetItem(args, hints[i].name)
                                     ELSE hints[i].default)]))
       ELSE Err(Join([i \in 1..Len(errs) |-> pretty_loc(errs[i].loc) \o <<": ">> \o errs[i].msg], ". "))

try_concrete_type_hints(cls) == Ok(concrete_type_hints(cls))

RECURSIVE parser_for(_)
RECURSIVE parse_literal(_)
RECURSIVE Apply(_, _, _)
RECURSIVE parse(_, _, _)
RECURSIVE parseAt(_, _, _)
RECURSIVE parse_list(_, _, _)
RECURSIVE parse_set(_, _, _)
RECURSIVE parse_dict(_, _, _, _)
RECURSIVE parse_one_of(_, _, _)
RECURSIVE collect_args(_, _, _, _, _)
RECURSIVE class_parser(_, _, _)

\* The first parser_for of the list that raised, or the list of parsers.
Parsers(ps) ==
    LET bad == {i \in 1..Len(ps) : IsRaise(ps[i])}
    IN IF bad = {} THEN [p |-> "parse_one_of", parsers |-> ps] ELSE ps[Min(bad)]

parser_for(ty) ==
    IF ty.t = "Any" THEN [p |-> "parse_any"]
    ELSE IF ty.t = "str" THEN [p |-> "parse_string"]
    ELSE IF ty.t = "bool" THEN [p |-> "parse_bool"]
    ELSE IF ty.t = "float" THEN [p |-> "parse_float"]
    ELSE IF ty.t = "int" THEN [p |-> "parse_int"]
    ELSE IF ty.t = "NoneType" THEN [p |-> "parse_None"]
    ELSE IF ty.t = "list"
    THEN [p |-> "parse_list", element_ty |-> IF ty.args = <<>> THEN AnyT ELSE ty.args[1]]
    ELSE IF ty.t = "dict"
    THEN [p |-> "parse_dict", key_ty |-> IF ty.args = <<>> THEN AnyT ELSE ty.args[1],
                              value_ty |-> IF ty.args = <<>> THEN AnyT ELSE ty.args[2]]
    ELSE IF ty.t = "set"
    THEN [p |-> "parse_set", element_ty |-> IF ty.args = <<>> THEN AnyT ELSE ty.args[1]]
    ELSE IF ty.t = "Decimal" THEN [p |-> "parse_decimal"]
    ELSE IF ty.t = "Union" THEN Parsers([i \in 1..Len(ty.args) |-> parser_for(ty.args[i])])
    ELSE IF ty.t = "NewType" THEN parser_for(ty.supertype)
    ELSE IF ty.t = "class" THEN [p |-> "from_json", cls |-> ty.name]
    ELSE IF ty.t = "Literal" THEN Parsers([i \in 1..Len(ty.args) |-> parse_literal(ty.args[i])])
    ELSE Raise("ValueError: No JSON parser available")

parse_literal(arg) ==
    LET p == parser_for(TypeOf(arg))
    IN IF IsRaise(p) THEN p ELSE [p |-> "parse_literal", parser |-> p, arg |-> arg]

Apply(p, json, opts) ==
    IF p.p = "parse_any" THEN parse_any(json)
    ELSE IF p.p = "parse_string" THEN parse_string(json)
    ELSE IF p.p = "parse_bool" THEN parse_bool(json)
    ELSE IF p.p = "parse_float" THEN parse_float(json)
    ELSE IF p.p = "parse_int" THEN parse_int(json)
    ELSE IF p.p = "parse_None" THEN parse_None(json)
    ELSE IF p.p = "parse_decimal" THEN parse_decimal(json)
    ELSE IF p.p = "parse_list" THEN parse_list(json, p.element_ty, opts)
    ELSE IF p.p = "parse_set" THEN parse_set(json, p.element_ty, opts)
    ELSE IF p.p = "parse_dict" THEN parse_dict(json, p.key_ty, p.value_ty, opts)
    ELSE IF p.p = "parse_one_of" THEN parse_one_of(json, p.parsers, opts)
    ELSE IF p.p = "parse_literal"
    THEN then(Apply(p.parser, json, opts), LAMBDA v : check_literal(p.arg, v))
    ELSE class_parser(p.cls, json, opts)

parse(ty, json, opts) ==
    LET p == parser_for(ty) IN IF IsRaise(p) THEN p ELSE Apply(p, json, opts)

\* (mutant) the index is reported one-based
parseAt_one_based(x, element_ty, opts) ==
    LET p == parser_for(element_ty)
    IN IF IsRaise(p) THEN p
       ELSE map_err(Apply(p, x[2], opts),
                    LAMBDA err : <<"At index ">> \o IntStr(x[1] + 1) \o <<": ">> \o err)

parseAt(x, element_ty, opts) ==
    LET p == parser_for(element_ty)
    IN IF IsRaise(p) THEN p
       ELSE map_err(Apply(p, x[2], opts),
                    LAMBDA err : <<"At index ">> \o IntStr(x[1]) \o <<": ">> \o err)

parse_list(json, element_ty, opts) ==
    IF isinstance(json, "list")
    THEN LET r == traverse([i \in 1..Len(json.l) |-> <<i - 1, json.l[i]>>],
                           LAMBDA x : parseAt(x, element_ty, opts))
         IN IF r.tag = "Ok" THEN Ok(ListV(r.value)) ELSE r
    ELSE Expected("List", json)

parse_set(json, element_ty, opts) ==
    IF isinstance(json, "list") THEN map(parse_list(json, element_ty, opts), set)
    ELSE Expected("Set", json)

\* What the loop body does with entry i: "next" to go on to the following
\* entry, or the Err it returns or the exception it lets through.
DictStep(e, key_ty, value_ty, opts) ==
    LET parsed_key == parse(key_ty, e.key, opts)
        parsed_val == parse(value_ty, e.val, opts)
    IN IF IsRaise(parsed_key) THEN parsed_key
       ELSE IF IsRaise(parsed_val) THEN parsed_val
       ELSE IF parsed_key.tag = "Err"
       THEN Err(<<"Parsing key name ">> \o PyStr(e.key) \o <<": ">> \o parsed_key.error)
       ELSE IF parsed_val.tag = "Err"
       THEN Err(<<"Parsing key ">> \o PyStr(e.key) \o <<": ">> \o parsed_val.error)
       ELSE IF ~Hashable(parsed_key.value) THEN Raise("TypeError")
       ELSE [tag |-> "next", key |-> parsed_key.value, val |-> parsed_val.value]

RECURSIVE DictFill(_, _)
DictFill(steps, n) ==
    IF n = 0 THEN <<>> ELSE SetItem(DictFill(steps, n - 1), steps[n].key, steps[n].val)

parse_dict(json, key_ty, value_ty, opts) ==
    IF isinstance(json, "dict")
    THEN LET steps == [i \in 1..Len(json.d) |-> DictStep(json.d[i], key_ty, value_ty, opts)]
             bad == {i \in 1..Len(steps) : steps[i].tag # "next"}
         IN IF bad = {} THEN Ok(DictV(DictFill(steps, Len(steps)))) ELSE steps[Min(bad)]
    ELSE Expected("Dict", json)

IsOk(r) == r.tag = "Ok"
ErrorOf(r) == r.error
ValueOf(r) == r.value
\* The list comprehensions of parse_one_of (common/json.py, lines 232-236).
SeqMap(s, f(_)) == [i \in 1..Len(s) |-> f(s[i])]

\* str(map(...)) is the repr of the map object, "<map object at 0x...>",
\* whatever the successes are
parse_one_of(json, parsers, opts) ==
    LET parsed == [i \in 1..Len(parsers) |-> Apply(parsers[i], json, opts)]
        raised == {i \in 1..Len(parsed) : IsRaise(parsed[i])}
        successes == SeqMap(SelectSeq(parsed, IsOk), ValueOf)
        failures == SeqMap(SelectSeq(parsed, LAMBDA r : r.tag = "Err"), ErrorOf)
    IN IF raised # {} THEN parsed[Min(raised)]
       ELSE IF Len(successes) = 0 THEN Err(<<"No parse.\n">> \o Join(failures, "\n"))
       ELSE IF Len(successes) = 1 THEN Ok(successes[1])
       ELSE Err(<<"Ambiguous parse of ">> \o dumps(json) \o <<": ", "<map object at 0x...>">>)

\* (mutant) fill_missing_optionals binds null to an optional field whether
\* or not the input has it
collect_args_fill_present(hints, i, args, json, opts) ==
    IF i > Len(hints) THEN Ok(args)
    ELSE LET field == hints[i].name
             field_type == hints[i].type
         IN IF ~HasKey(json.d, StrV(field)) \/ (is_optional(field_type) /\ opts.fill_missing_optionals)
            THEN collect_args(hints, i + 1,
                     IF is_optional(field_type) /\ opts.fill_missing_optionals
                     THEN SetItem(args, field, NoneV) ELSE args,
                     json, opts)
            ELSE LET parsed == parse(field_type, GetItem(json.d, StrV(field)), opts)
                 IN IF IsRaise(parsed) THEN parsed
                    ELSE IF parsed.tag = "Ok"
                    THEN collect_args(hints, i + 1, SetItem(args, field, parsed.value), json, opts)
                    ELSE Err(<<"Parsing field '">> \o field \o <<"': ">> \o parsed.error)

\* The loop over the declared fields from field i on, with the arguments
\* collected so far: Ok(args), the first field's Err, or what it raised.
collect_args(hints, i, args, json, opts) ==
    IF i > Len(hints) THEN Ok(args)
    ELSE LET field == hints[i].name
             field_type == hints[i].type
         IN IF ~HasKey(json.d, StrV(field))
            THEN collect_args(hints, i + 1,
                     IF is_optional(field_type) /\ opts.fill_missing_optionals
                     THEN SetItem(args, field, NoneV) ELSE args,
                     json, opts)
            ELSE LET parsed == parse(field_type, GetItem(json.d, StrV(field)), opts)
                 IN IF IsRaise(parsed) THEN parsed
                    ELSE IF parsed.tag = "Ok"
                    THEN collect_args(hints, i + 1, SetItem(args, field, parsed.value), json, opts)
                    ELSE Err(<<"Parsing field '">> \o field \o <<"': ">> \o parsed.error)

\* (mutant) a key that is not a declared field is an error
class_parser_forbids_unknown(cls, json, opts) ==
    IF ~isinstance(json, "dict")
    THEN Err(<<"Expected ", "dict", " but found ", TypeName(json),
               ", when decoding ", cls, " from value: ">> \o dumps(json))
    ELSE LET rhints == try_concrete_type_hints(cls)
             unknown == {i \in 1..Len(json.d) :
                            \A h \in 1..Len(rhints.value) : json.d[i].key # StrV(rhints.value[h].name)}
         IN IF unknown # {}
            THEN Err(PyStr(json.d[Min(unknown)].key) \o <<": Extra inputs are not permitted">>)
            ELSE LET args == collect_args(rhints.value, 1, <<>>, json, opts)
                 IN IF args.tag = "Ok" THEN Construct(cls, args.value) ELSE args

class_parser(cls, json, opts) ==
    IF ~isinstance(json, "dict")
    THEN Err(<<"Expected ", "dict", " but found ", TypeName(json),
               ", when decoding ", cls, " from value: ">> \o dumps(json))
    ELSE LET rhints == try_concrete_type_hints(cls)
         IN IF rhints.tag = "Err" THEN Err(<<"When decoding ", cls, "\n">> \o rhints.error)
            ELSE LET args == collect_args(rhints.value, 1, <<>>, json, opts)
                 IN IF args.tag = "Ok" THEN Construct(cls, args.value) ELSE args

try_parse_json(ty, json, opts) == parse(ty, json, opts)

(***************************************************************************)
(* common/json.py: the encoder.  A set is iterated in an order the         *)
(* interpreter chooses, so to_json(data) is the set of the values the call *)
(* can return (or the one exception it raises).                            *)
(***************************************************************************)
RECURSIVE SeqProd(_)
SeqProd(sets) ==
    IF sets = <<>> THEN {<<>>}
    ELSE {<<h>> \o t : h \in Head(sets), t \in SeqProd(Tail(sets))}

RECURSIVE Perms(_)
Perms(S) == IF S = {} THEN {<<>>} ELSE UNION {{<<x>> \o q : q \in Perms(S \ {x})} : x \in S}

CannotConvert == Raise("ValueError: Cannot convert to JSON")
AnyRaise(s) == \E i \in 1..Len(s) : IsRaise(s[i])

RECURSIVE to_json(_)
RECURSIVE ToJSON_to_json(_)

to_json(d) ==
    IF isinstance(d, "int") \/ isinstance(d, "float") \/ isinstance(d, "str") \/ d.k = "NoneType"
    THEN {d}
    ELSE IF isinstance(d, "list")
    THEN {IF AnyRaise(s) THEN CannotConvert ELSE ListV(s) :
             s \in SeqProd([i \in 1..Len(d.l) |-> to_json(d.l[i])])}
    ELSE IF isinstance(d, "set")
    THEN UNION {{IF AnyRaise(s) THEN CannotConvert ELSE ListV(s) :
                    s \in SeqProd([i \in 1..Len(q) |-> to_json(q[i])])} : q \in Perms(d.e)}
    ELSE IF isinstance(d, "dict")
    THEN {IF AnyRaise(s) THEN CannotConvert
          ELSE DictV([i \in 1..Len(s) |-> Entry(d.d[i].key, s[i])]) :
             s \in SeqProd([i \in 1..Len(d.d) |-> to_json(d.d[i].val)])}
    ELSE IF isinstance(d, "Decimal") THEN {StrV(DecimalStr(d))}
    ELSE IF d.k = "obj" THEN ToJSON_to_json(d)
    ELSE {CannotConvert}

\* properties are the annotated names of the class; self.__dict__[prop] is
\* the field of that name
ToJSON_to_json(self) ==
    LET properties == SeqMap(get_type_hints(self.cls), LAMBDA h : h.name)
    IN {IF AnyRaise(s) THEN CannotConvert
        ELSE DictV([i \in 1..Len(s) |-> Entry(StrV(properties[i]), s[i])]) :
           s \in SeqProd([i \in 1..Len(properties) |-> to_json(GetItem(self.f, properties[i]))])}

(***************************************************************************)
(* The explored inputs.                                                    *)
(***************************************************************************)
NoValue == [k |-> "NoValue"]

RECURSIVE SeqsUpTo(_, _)
SeqsUpTo(S, n) ==
    IF n = 0 THEN {<<>>}
    ELSE SeqsUpTo(S, n - 1) \cup {Append(s, x) : s \in {q \in SeqsUpTo(S, n - 1) : Len(q) = n - 1}, x \in S}

Strings == {StrV(<<"x">>), StrV(<<"1", ".", "5">>), StrV(<<"not-an-int">>)}
Scalars == Strings \cup {IntV(i) : i \in 0..MaxInt} \cup {IntV(5), BoolV(TRUE), BoolV(FALSE),
                                                         FloatV(1, 5), NoneV}
ListElems == {IntV(1), StrV(<<"x">>), IntV(3)}
JsonLists == {ListV(s) : s \in SeqsUpTo(ListElems, MaxListLen)}
             \cup {ListV(<<ListV(<<IntV(1)>>)>>), ListV(<<BoolV(TRUE), IntV(1)>>),
                   ListV(<<StrV(<<"x">>), StrV(<<"x">>)>>),
                   ListV(<<IntV(1), StrV(<<"x">>), IntV(3)>>)}
Dict1(key, v) == DictV(<<Entry(StrV(<<key>>), v)>>)
Dict2(k1, v1, k2, v2) == DictV(<<Entry(StrV(<<k1>>), v1), Entry(StrV(<<k2>>), v2)>>)
InnerDicts == {DictV(<<>>)} \cup {Dict1("b", v) : v \in {IntV(1), StrV(<<"not-an-int">>), BoolV(TRUE)}}
FieldKeys == {"a", "b", "x", "value", "zz"}
PairVals == {IntV(1), StrV(<<"not-an-int">>), NoneV}
JsonDicts ==
    {DictV(<<>>)}
    \cup {Dict1(key, v) : key \in FieldKeys, v \in Scalars \cup InnerDicts}
    \cup {Dict1("items", v) : v \in JsonLists \cup {IntV(1)}}
    \cup {Dict1("x", v) : v \in {ListV(<<StrV(<<"x">>)>>), ListV(<<ListV(<<IntV(1)>>)>>)}}
    \cup {Dict2("a", v1, "b", v2) : v1 \in PairVals \cup {StrV(<<"1", ".", "5">>)},
                                     v2 \in PairVals \cup {DictV(<<>>), Dict1("x", IntV(1))}}
    \cup {Dict2("b", v1, "x", v2) : v1 \in PairVals, v2 \in PairVals \cup {StrV(<<"x">>)}}
JsonInputs == Scalars \cup JsonLists \cup JsonDicts

TargetTypes ==
    {AnyT, StrT, BoolT, FloatT, IntT, NoneT, DecimalT, BytesT,
     ListT(IntT), BareT("list"), ListT(BytesT), ListT(DecimalT), SetT(IntT), SetT(ListT(IntT)), BareT("set"),
     DictT(StrT, IntT), DictT(IntT, IntT), BareT("dict"), DictT(StrT, BytesT), DictT(StrT, DecimalT),
     UnionT(<<IntT, StrT>>), OptionalT(StrT), UnionT(<<IntT, BoolT>>),
     UnionT(<<StrT, DecimalT>>), UnionT(<<IntT, DecimalT>>), UnionT(<<IntT, BytesT>>),
     UnionT(<<IntT, ListT(BytesT)>>),
     NewTypeT("UserId", IntT), NewTypeT("Blob", BytesT),
     LiteralT(<<StrV(<<"x">>), StrV(<<"1", ".", "5">>)>>), LiteralT(<<IntV(1)>>)}
    \cup {ClassT(c) : c \in ClassNames}

Decimals == {DecV(0, <<1, 5>>, -1), DecV(0, <<1, 5, 0>>, -2), DecV(0, <<1>>, 2),
             DecV(1, <<1>>, -2), DecV(0, <<1>>, -7), DecV(0, <<0>>, 0)}

\* The well-typed Python values of a type: what a field of that type can hold.
RECURSIVE ValuesOf(_)
RECURSIVE Instances(_)
ValuesOf(ty) ==
    IF ty.t = "Any" THEN {IntV(1), StrV(<<"x">>), NoneV, ListV(<<IntV(1)>>)}
    ELSE IF ty.t = "str" THEN Strings
    ELSE IF ty.t = "bool" THEN {BoolV(TRUE), BoolV(FALSE)}
    ELSE IF ty.t = "float" THEN {FloatV(1, 5)}
    ELSE IF ty.t = "int" THEN {IntV(i) : i \in 0..MaxInt}
    ELSE IF ty.t = "NoneType" THEN {NoneV}
    ELSE IF ty.t = "Decimal" THEN Decimals
    ELSE IF ty.t = "list" /\ ty.args # <<>> THEN {ListV(s) : s \in SeqsUpTo(ValuesOf(ty.args[1]), MaxListLen)}
    ELSE IF ty.t = "bytes" THEN {BytesV}
    ELSE IF ty.t = "set" /\ ty.args # <<>>
    THEN {SetV(e) : e \in {q \in SUBSET {x \in ValuesOf(ty.args[1]) : Hashable(x)} : Cardinality(q) <= 2}}
    ELSE IF ty.t = "dict" /\ ty.args # <<>>
    THEN {DictV(<<>>)} \cup {DictV(<<Entry(key, v)>>) : key \in ValuesOf(ty.args[1]), v \in ValuesOf(ty.args[2])}
    ELSE IF ty.t = "Union" THEN UNION {ValuesOf(ty.args[i]) : i \in 1..Len(ty.args)}
    ELSE IF ty.t = "class" THEN Instances(ty.name)
    ELSE {}

Instances(cls) ==
    LET hints == get_type_hints(cls)
    IN {ObjV(cls, [i \in 1..Len(s) |-> Entry(hints[i].name, s[i])]) :
           s \in SeqProd([i \in 1..Len(hints) |-> ValuesOf(hints[i].type)])}

(***************************************************************************)
(* The decoder and the encoder as a state machine: an optional to_json of  *)
(* a value, parser_for(target), then the call of the parser it returned.   *)
(***************************************************************************)
NoCall == [called |-> FALSE]
Called(args) == [called |-> TRUE, args |-> args]

CmdIdle ==
    /\ request_data = NoValue /\ script = NoValue /\ command = NoValue
    /\ calls = <<>> /\ response = NoValue /\ cpc = "idle"

ResIdle ==
    /\ chain = <<>> /\ trail = <<>> /\ xs = <<>> /\ fn = NoValue /\ index = 0
    /\ results = <<>> /\ returned = NoValue /\ invoked = <<>> /\ rpc = "idle"

ArgsIdle ==
    /\ cli_config = NoValue /\ arg_parser = NoValue /\ argv = <<>> /\ namespace = NoValue /\ apc = "idle"

TypIdle ==
    /\ bound = <<>> /\ generic = NoValue /\ concrete = NoValue /\ resolved = NoValue
    /\ union_type_subscriptable = FALSE /\ tpc = "idle"

RetryIdle ==
    /\ max_retries = 0 /\ action = <<>> /\ retry_count = 0 /\ error = NoValue /\ awaited = <<>>
    /\ retried = NoValue /\ ypc = "idle"

FlowIdle ==
    /\ flow_action = <<>> /\ environ = NoValue /\ locals = NoValue /\ commit_state = NoValue /\ log = <<>>
    /\ flow_result = NoValue /\ rounds = 0 /\ fpc = "idle"

UpdIdle ==
    /\ executable = <<>> /\ attempts = <<>> /\ update_result = NoValue /\ upc = "idle"

ExtIdle == TypIdle /\ RetryIdle /\ FlowIdle /\ UpdIdle

Init ==
    /\ options \in {ParsingOptions(b) : b \in BOOLEAN}
    /\ \/ /\ target \in TargetTypes
          /\ value \in ValuesOf(target)
          /\ input = NoValue
          /\ pc = "encode"
       \/ /\ target \in TargetTypes
          /\ value = NoValue
          /\ input \in JsonInputs
          /\ pc = "build"
    /\ built = NoValue /\ outcome = NoValue /\ ctor_args = NoCall
    /\ CmdIdle
    /\ ResIdle
    /\ ArgsIdle
    /\ ExtIdle

Encode ==
    /\ pc = "encode"
    /\ input' \in to_json(value)
    /\ outcome' = IF IsRaise(input') THEN input' ELSE outcome
    /\ pc' = IF IsRaise(input') THEN "done" ELSE "build"
    /\ UNCHANGED <<target, value, options, built, ctor_args>>
    /\ UNCHANGED <<cmdVars, resVars, argVars, extVars>>

BuildParser ==
    /\ pc = "build"
    /\ built' = parser_for(target)
    /\ outcome' = IF IsRaise(built') THEN built' ELSE outcome
    /\ pc' = IF IsRaise(built') THEN "failed" ELSE "decode"
    /\ UNCHANGED <<target, value, input, options, ctor_args>>
    /\ UNCHANGED <<cmdVars, resVars, argVars, extVars>>

\* The arguments the outermost class_parser hands to the constructor, when
\* it gets that far.
TopArgs(ty, json, opts) ==
    IF ty.t = "class" /\ isinstance(json, "dict")
    THEN LET args == collect_args(concrete_type_hints(ty.name), 1, <<>>, json, opts)
         IN IF args.tag = "Ok" THEN Called(args.value) ELSE NoCall
    ELSE NoCall

Decode ==
    /\ pc = "decode"
    /\ outcome' = Apply(built, input, options)
    /\ ctor_args' = TopArgs(target, input, options)
    /\ pc' = "done"
    /\ UNCHANGED <<target, value, input, options, built>>
    /\ UNCHANGED <<cmdVars, resVars, argVars, extVars>>

Next == Encode \/ BuildParser \/ Decode

Spec == Init /\ [][Next]_vars

(***************************************************************************)
(* common/errors.py, common/http_response.py, common/json_parser.py and    *)
(* common/command/execute_command_handler.py.                              *)
(***************************************************************************)
Fail(code, message) == [cls |-> "Fail", code |-> code, message |-> message, details |-> NoneV]
Forbidden(message) == [cls |-> "Forbidden", message |-> message]
Unauthorized(message) == [cls |-> "Unauthorized", message |-> message]
BadRequest(message) == [cls |-> "BadRequest", message |-> message, details |-> NoneV]
InternalServerError(message) == [cls |-> "InternalServerError", message |-> message]
\* any other exception: its class, whether the class derives from Exception
\* (KeyboardInterrupt, SystemExit and asyncio.CancelledError do not), and str(error)
OtherError(cls, text) == [cls |-> cls, is_exception |-> TRUE, message |-> text]
BaseOnly(cls) == [cls |-> cls, is_exception |-> FALSE, message |-> <<>>]

DeclaredFailures == {"Fail", "Forbidden", "Unauthorized", "BadRequest"}
IsException(exc) == IF "is_exception" \in DOMAIN exc THEN exc.is_exception ELSE TRUE

ErrorContent(fields) == DictV(<<Entry(StrV(<<"error">>), DictV(fields))>>)
MessageEntry(failure) == Entry(StrV(<<"message">>), StrV(failure.message))
DetailsEntry(failure) == Entry(StrV(<<"details">>), failure.details)

\* (mutant) Unauthorized answered with the status of Forbidden
to_response_unauthorized_403(failure) ==
    IF failure.cls = "Fail"
    THEN <<ErrorContent(<<MessageEntry(failure), DetailsEntry(failure)>>), failure.code>>
    ELSE IF failure.cls \in {"Forbidden", "Unauthorized"}
    THEN <<ErrorContent(<<MessageEntry(failure)>>), 403>>
    ELSE IF failure.cls = "BadRequest"
    THEN <<ErrorContent(<<MessageEntry(failure), DetailsEntry(failure)>>), 400>>
    ELSE <<ErrorContent(<<MessageEntry(failure)>>), 500>>

to_response(failure) ==
    IF failure.cls = "Fail"
    THEN <<ErrorContent(<<MessageEntry(failure), DetailsEntry(failure)>>), failure.code>>
    ELSE IF failure.cls = "Forbidden" THEN <<ErrorContent(<<MessageEntry(failure)>>), 403>>
    ELSE IF failure.cls = "Unauthorized" THEN <<ErrorContent(<<MessageEntry(failure)>>), 401>>
    ELSE IF failure.cls = "BadRequest"
    THEN <<ErrorContent(<<MessageEntry(failure), DetailsEntry(failure)>>), 400>>
    ELSE <<ErrorContent(<<MessageEntry(failure)>>), 500>>

\* model_type.model_validate(data) for a command with one required str
\* field, content; every exception becomes an Err
json_parser_try_parse_json(d) ==
    IF d.k # "dict"
    THEN Err(<<"()", ": ", "Input should be a valid dictionary or instance of Command">>)
    ELSE IF ~HasKey(d.d, StrV(<<"content">>))
    THEN Err(<<"('content',)", ": ", "Field required">>)
    ELSE IF GetItem(d.d, StrV(<<"content">>)).k # "str"
    THEN Err(<<"('content',)", ": ", "Input should be a valid string">>)
    ELSE Ok(ObjV("Command", <<Entry(<<"content">>, GetItem(d.d, StrV(<<"content">>)))>>))

Returned(pair) == [kind |-> "returned", content |-> pair[1], status |-> pair[2]]
Propagated(exc) == [kind |-> "propagated", exc |-> exc]

\* The except clauses around the factory call and handle_command.
Catch(exc) ==
    IF exc.cls \in DeclaredFailures THEN Returned(to_response(exc))
    ELSE IF IsException(exc)
    THEN Returned(to_response(InternalServerError(<<"Internal error: ">> \o exc.message)))
    ELSE Propagated(exc)

Return(content, status) == [do |-> "return", result |-> <<content, status>>]
Raises(exc) == [do |-> "raise", exc |-> exc]

Payloads ==
    {DictV(<<>>), IntV(1)}
    \cup {DictV(<<Entry(StrV(<<"content">>), v)>>) : v \in {StrV(<<"x">>), StrV(<<"hello">>), IntV(1), NoneV}}
Exceptions ==
    {Fail(404, <<"not found">>), Fail(409, <<"conflict">>), Fail(500, <<"failed">>),
     Forbidden(<<"no">>), Unauthorized(<<"who">>), BadRequest(<<"bad">>),
     InternalServerError(<<"boom">>),
     OtherError("ValueError", <<"secret", " ", "token">>), OtherError("RuntimeError", <<"disk full">>),
     OtherError("KeyError", <<>>),
     BaseOnly("KeyboardInterrupt"), BaseOnly("CancelledError")}
Returns == {Return(DictV(<<Entry(StrV(<<"message">>), StrV(<<"ok">>))>>), 200),
            Return(DictV(<<>>), 201), Return(ErrorContent(<<>>), 500)}
Scripts ==
    {[factory |-> Return(NoneV, 0), handle |-> h] : h \in Returns \cup {Raises(e) : e \in Exceptions}}
    \cup {[factory |-> Raises(e), handle |-> Return(DictV(<<>>), 200)] : e \in Exceptions}

JsonIdle ==
    /\ target = NoValue /\ value = NoValue /\ input = NoValue
    /\ options = defaultParsingOptions /\ built = NoValue /\ outcome = NoValue
    /\ ctor_args = NoCall /\ pc = "idle"

CoreIdle == JsonIdle /\ CmdIdle /\ ResIdle /\ ArgsIdle
IdleButTyp == CoreIdle /\ RetryIdle /\ FlowIdle /\ UpdIdle
IdleButRetry == CoreIdle /\ TypIdle /\ FlowIdle /\ UpdIdle
IdleButFlow == CoreIdle /\ TypIdle /\ RetryIdle /\ UpdIdle
IdleButUpd == CoreIdle /\ TypIdle /\ RetryIdle /\ FlowIdle

InitCmd ==
    /\ request_data \in Payloads
    /\ script \in Scripts
    /\ command = NoValue
    /\ calls = <<>>
    /\ response = NoValue
    /\ cpc = "start"
    /\ JsonIdle
    /\ ResIdle
    /\ ArgsIdle
    /\ ExtIdle

\* (mutant) a payload that does not decode still goes on to the handler
CmdDecode_falls_through ==
    /\ cpc = "start"
    /\ LET rcommand == json_parser_try_parse_json(request_data)
       IN /\ command' = IF rcommand.tag = "Err" THEN command ELSE rcommand.value
          /\ response' = response
          /\ cpc' = "factory"
    /\ calls' = Append(calls, "try_parse_json")
    /\ UNCHANGED <<request_data, script>>
    /\ UNCHANGED <<jsonVars, resVars, argVars, extVars>>

\* rcommand = try_parse_json(command_type, request_data) and the match on it
CmdDecode ==
    /\ cpc = "start"
    /\ LET rcommand == json_parser_try_parse_json(request_data)
       IN IF rcommand.tag = "Err"
          THEN /\ response' = Returned(to_response(BadRequest(<<"Invalid request schema: ">> \o rcommand.error)))
               /\ command' = command
               /\ cpc' = "done"
          ELSE /\ command' = rcommand.value
               /\ response' = response
               /\ cpc' = "factory"
    /\ calls' = Append(calls, "try_parse_json")
    /\ UNCHANGED <<request_data, script>>
    /\ UNCHANGED <<jsonVars, resVars, argVars, extVars>>

\* command_handler(), inside the try
CmdFactory ==
    /\ cpc = "factory"
    /\ calls' = Append(calls, "command_handler")
    /\ IF script.factory.do = "raise"
       THEN response' = Catch(script.factory.exc) /\ cpc' = "done"
       ELSE response' = response /\ cpc' = "handle"
    /\ UNCHANGED <<request_data, script, command>>
    /\ UNCHANGED <<jsonVars, resVars, argVars, extVars>>

\* await handle_command(command), inside the try
CmdHandle ==
    /\ cpc = "handle"
    /\ calls' = Append(calls, "handle_command")
    /\ response' = IF script.handle.do = "raise" THEN Catch(script.handle.exc)
                   ELSE Returned(script.handle.result)
    /\ cpc' = "done"
    /\ UNCHANGED <<request_data, script, command>>
    /\ UNCHANGED <<jsonVars, resVars, argVars, extVars>>

NextCmd == CmdDecode \/ CmdFactory \/ CmdHandle

SpecCmd == InitCmd /\ [][NextCmd]_vars

(***************************************************************************)
(* common/result.py as a state machine: a chain of map / map_err / then    *)
(* calls on a Result, or one call of Result.traverse, with every           *)
(* application of a callback recorded in invoked.  A callback is the       *)
(* function from its argument to what it returns.                          *)
(***************************************************************************)
Vals == {IntV(0), IntV(1)}
ItemVals == {IntV(0), IntV(1), IntV(2)}
Errs == {StrV(<<"e1">>), StrV(<<"e2">>)}
Results == {Ok(v) : v \in Vals} \cup {Err(e) : e \in Errs}
MethodCall(method, f) == [method |-> method, func |-> f]
MethodCalls ==
    {MethodCall("map", f) : f \in [Vals -> Vals]}
    \cup {MethodCall("map_err", f) : f \in [Errs -> Errs]}
    \cup {MethodCall("then", f) : f \in [Vals -> Results]}
Chains == SeqsUpTo(MethodCalls, MaxChain) \ {<<>>}
Applied(step, arg) == [step |-> step, arg |-> arg]

InitRes ==
    /\ \/ /\ chain \in Chains
          /\ trail \in {<<r>> : r \in Results}
          /\ xs = <<>> /\ fn = NoValue
          /\ rpc = "chain"
       \/ /\ xs \in SeqsUpTo(ItemVals, MaxItems)
          /\ fn \in [ItemVals -> Results]
          /\ chain = <<>> /\ trail = <<>>
          /\ rpc = "loop"
    /\ index = 0 /\ results = <<>> /\ returned = NoValue /\ invoked = <<>>
    /\ JsonIdle
    /\ CmdIdle
    /\ ArgsIdle
    /\ ExtIdle

\* The next method call of the chain is method: its receiver, its callback
\* and its place in the chain.
NextCall(method) ==
    /\ rpc = "chain"
    /\ Len(trail) <= Len(chain)
    /\ chain[Len(trail)].method = method
Receiver == trail[Len(trail)]
Callback == chain[Len(trail)].func
Chained(result) ==
    /\ trail' = Append(trail, result)
    /\ rpc' = IF Len(trail) = Len(chain) THEN "done" ELSE "chain"
    /\ UNCHANGED <<chain, xs, fn, index, results, returned>>
    /\ UNCHANGED <<jsonVars, cmdVars, argVars, extVars>>

\* self.map(func)
MapCall ==
    /\ NextCall("map")
    /\ IF Receiver.tag = "Ok"
       THEN /\ invoked' = Append(invoked, Applied(Len(trail), Receiver.value))
            /\ Chained(map(Receiver, LAMBDA v : Callback[v]))
       ELSE /\ invoked' = invoked
            /\ Chained(map(Receiver, LAMBDA v : Callback[v]))

\* self.map_err(func)
MapErrCall ==
    /\ NextCall("map_err")
    /\ IF Receiver.tag = "Ok"
       THEN /\ invoked' = invoked
            /\ Chained(map_err(Receiver, LAMBDA e : Callback[e]))
       ELSE /\ invoked' = Append(invoked, Applied(Len(trail), Receiver.error))
            /\ Chained(map_err(Receiver, LAMBDA e : Callback[e]))

\* (mutant) then applies its callback to an Err receiver as well
ThenCall_on_err ==
    /\ NextCall("then")
    /\ LET arg == IF Receiver.tag = "Ok" THEN Receiver.value ELSE IntV(0)
       IN /\ invoked' = Append(invoked, Applied(Len(trail), arg))
          /\ Chained(Callback[arg])

\* self.then(func)
ThenCall ==
    /\ NextCall("then")
    /\ IF Receiver.tag = "Ok"
       THEN /\ invoked' = Append(invoked, Applied(Len(trail), Receiver.value))
            /\ Chained(then(Receiver, LAMBDA v : Callback[v]))
       ELSE /\ invoked' = invoked
            /\ Chained(then(Receiver, LAMBDA v : Callback[v]))

\* (mutant) the loop goes on after an Err
TraverseStep_goes_on ==
    /\ rpc = "loop"
    /\ index < Len(xs)
    /\ LET item == xs[index + 1]
           result == fn[item]
       IN /\ invoked' = Append(invoked, Applied(index + 1, item))
          /\ index' = index + 1
          /\ IF result.tag = "Ok"
             THEN results' = Append(results, result.value) /\ returned' = returned
             ELSE results' = results /\ returned' = Err(result.error)
          /\ rpc' = "loop"
    /\ UNCHANGED <<chain, trail, xs, fn>>
    /\ UNCHANGED <<jsonVars, cmdVars, argVars, extVars>>

\* One iteration of `for item in items` in Result.traverse.
TraverseStep ==
    /\ rpc = "loop"
    /\ index < Len(xs)
    /\ LET item == xs[index + 1]
           result == fn[item]
       IN /\ invoked' = Append(invoked, Applied(index + 1, item))
          /\ index' = index + 1
          /\ IF result.tag = "Ok"
             THEN /\ results' = Append(results, result.value)
                  /\ returned' = returned
                  /\ rpc' = "loop"
             ELSE /\ results' = results
                  /\ returned' = Err(result.error)
                  /\ rpc' = "done"
    /\ UNCHANGED <<chain, trail, xs, fn>>
    /\ UNCHANGED <<jsonVars, cmdVars, argVars, extVars>>

\* return Result(Ok(results)), after the loop
TraverseReturn ==
    /\ rpc = "loop"
    /\ index = Len(xs)
    /\ returned' = Ok(results)
    /\ rpc' = "done"
    /\ UNCHANGED <<chain, trail, xs, fn, index, results, invoked>>
    /\ UNCHANGED <<jsonVars, cmdVars, argVars, extVars>>

NextRes == MapCall \/ MapErrCall \/ ThenCall \/ TraverseStep \/ TraverseReturn

SpecRes == InitRes /\ [][NextRes]_vars

(***************************************************************************)
(* common/arguments.py: the parser configurations and create_parser, and   *)
(* argparse's parse_args on the parser it builds.  parse_args reads the    *)
(* argument list left to right; what it prints is left out, its exit       *)
(* status is kept.                                                         *)
(***************************************************************************)
\* create_parser() called without its positional argument
NoArgument == [k |-> "NoArgument"]
TranslateCLIArguments == [flag |-> "--translate", help |-> "Text to translate from any language to English"]
CommitCLIArguments == [flag |-> "--commit", help |-> "Generate a commit message", choices |-> {"generate"}]
QuickCLIConfig ==
    [prog |-> "quick", description |-> "Quick Assistant - CLI tool for productivity",
     epilog |-> "Examples: ...", commands |-> <<TranslateCLIArguments, CommitCLIArguments>>]
Configs == {NoArgument, <<>>, TranslateCLIArguments, QuickCLIConfig}

\* The argument strings that start with "-", and the destination argparse
\* derives from a long option string.
Dashed == {"-h", "--help", "--version", "--translate", "--commit"}
Dest(flag) ==
    IF flag = "--translate" THEN "translate"
    ELSE IF flag = "--commit" THEN "commit"
    ELSE IF flag = "--version" THEN "version"
    ELSE "help"
Tokens == Dashed \cup {"hello", "generate"}

SystemExit(code) == [kind |-> "SystemExit", code |-> code]
Namespace(ns) == [kind |-> "Namespace", args |-> ns]

\* group.add_argument(cmd["flag"], help=cmd["help"][, choices=cmd["choices"]])
add_argument(cmd) ==
    IF "choices" \in DOMAIN cmd
    THEN [flag |-> cmd.flag, dest |-> Dest(cmd.flag), help |-> cmd.help, choices |-> cmd.choices]
    ELSE [flag |-> cmd.flag, dest |-> Dest(cmd.flag), help |-> cmd.help]

\* The parser: its program name and the options of its mutually exclusive
\* group; -h / --help is added by ArgumentParser itself.
create_parser(conf) ==
    IF conf = NoArgument THEN Raise("TypeError: create_parser() missing 1 required positional argument: 'config'")
    ELSE LET commands == IF "commands" \in DOMAIN conf THEN conf.commands ELSE <<>>
         IN [prog |-> IF "prog" \in DOMAIN conf THEN conf.prog ELSE "quick",
             group |-> [i \in 1..Len(commands) |-> add_argument(commands[i])]]

OptionOf(p, tok) == {i \in 1..Len(p.group) : p.group[i].flag = tok}

\* parse_args from argument i on: ns is the namespace so far, seen the
\* options of the group given so far, extras the unrecognized arguments.
RECURSIVE parse_from(_, _, _, _, _, _)
parse_from(p, args, i, ns, seen, extras) ==
    IF i > Len(args)
    THEN IF extras # <<>> THEN SystemExit(2) ELSE Namespace(ns)
    ELSE IF args[i] \in {"-h", "--help"} THEN SystemExit(0)
    ELSE IF OptionOf(p, args[i]) # {}
    THEN LET o == p.group[Min(OptionOf(p, args[i]))]
         IN IF i + 1 > Len(args) \/ args[i + 1] \in Dashed THEN SystemExit(2)
            ELSE IF "choices" \in DOMAIN o /\ args[i + 1] \notin o.choices THEN SystemExit(2)
            ELSE IF seen \ {o.dest} # {} THEN SystemExit(2)
            ELSE parse_from(p, args, i + 2, SetItem(ns, o.dest, StrV(<<args[i + 1]>>)),
                            seen \cup {o.dest}, extras)
    ELSE parse_from(p, args, i + 1, ns, seen, Append(extras, args[i]))

\* Every option starts out as None in the namespace.
parse_args(p, args) ==
    parse_from(p, args, 1, [i \in 1..Len(p.group) |-> Entry(p.group[i].dest, NoneV)], {}, <<>>)

InitArgs ==
    /\ cli_config \in Configs
    /\ argv \in SeqsUpTo(Tokens, MaxArgs)
    /\ arg_parser = NoValue /\ namespace = NoValue
    /\ apc = "create"
    /\ JsonIdle
    /\ CmdIdle
    /\ ResIdle
    /\ ExtIdle

\* parser = create_parser(config)
CreateParser ==
    /\ apc = "create"
    /\ arg_parser' = create_parser(cli_config)
    /\ apc' = IF IsRaise(arg_parser') THEN "failed" ELSE "parse"
    /\ UNCHANGED <<cli_config, argv, namespace>>
    /\ UNCHANGED <<jsonVars, cmdVars, resVars, extVars>>

\* parser.parse_args(argv)
ParseArgs ==
    /\ apc = "parse"
    /\ namespace' = parse_args(arg_parser, argv)
    /\ apc' = "done"
    /\ UNCHANGED <<cli_config, arg_parser, argv>>
    /\ UNCHANGED <<jsonVars, cmdVars, resVars, extVars>>

NextArgs == CreateParser \/ ParseArgs

SpecArgs == InitArgs /\ [][NextArgs]_vars

(***************************************************************************)
(* common/reflection.py: concrete_type and concrete_type_hints, each       *)
(* called once on a type expression or a class reference.                  *)
(***************************************************************************)
GenericClasses == {"Box", "Two", "Empty", "Handler", "Maybe", "Plain", "Unit"}

get_type_constructor(ty) ==
    IF "args" \in DOMAIN ty
    THEN (IF ty.t = "class" THEN ClassT(ty.name) ELSE BareT(ty.t))
    ELSE ty

get_type_parameters(ty) ==
    IF "t" \in DOMAIN ty /\ ty.t = "class"
    THEN (CASE ty.name \in {"Box", "Empty", "Handler"} -> <<TypeVarT("T")>>
            [] ty.name = "Two" -> <<TypeVarT("T"), TypeVarT("U")>>
            [] OTHER -> <<>>)
    ELSE <<>>

get_type_arguments(ty) == IF "args" \in DOMAIN ty THEN ty.args ELSE <<>>

\* typing.Union[...] flattens nested unions, drops repeated members and is
\* the member itself when one is left
RECURSIVE UnionMembers(_)
UnionMembers(args) ==
    IF args = <<>> THEN <<>>
    ELSE LET a == Head(args)
             rest == UnionMembers(Tail(args))
             mine == IF "t" \in DOMAIN a /\ a.t \in {"Union", "UnionType"} /\ "args" \in DOMAIN a
                     THEN a.args ELSE <<a>>
         IN mine \o rest

RECURSIVE Dedupe(_)
Dedupe(s) ==
    IF s = <<>> THEN <<>>
    ELSE LET front == Dedupe(SubSeq(s, 1, Len(s) - 1))
             last == s[Len(s)]
         IN IF \E i \in 1..Len(front) : front[i] = last THEN front ELSE Append(front, last)

UnionOf(kind, args) ==
    LET members == Dedupe(UnionMembers(args))
    IN IF Len(members) = 1 THEN members[1] ELSE [t |-> kind, args |-> members]

\* origin[*concrete_args].  types.UnionType cannot be subscripted before
\* Python 3.14: "TypeError: type 'types.UnionType' is not subscriptable".
Subscript(origin, args) ==
    CASE origin.t = "UnionType" ->
            IF union_type_subscriptable THEN UnionOf("UnionType", args)
            ELSE Raise("TypeError")
      [] origin.t = "Union" -> UnionOf("Union", args)
      [] origin.t = "class" -> GenericT(origin.name, args)
      [] OTHER -> [t |-> origin.t, args |-> args]

RECURSIVE concrete_type(_, _)
concrete_type(bindings, ty) ==
    IF "t" \in DOMAIN ty /\ ty.t = "TypeVar"
    THEN (IF HasKey(bindings, ty) THEN Ok(GetItem(bindings, ty)) ELSE Ok(AnyT))
    ELSE LET origin == get_type_constructor(ty)
             args == get_type_arguments(ty)
         IN IF Len(args) = 0 THEN Ok(origin)
            ELSE map(traverse(args, LAMBDA a : concrete_type(bindings, a)),
                     LAMBDA concrete_args : Subscript(origin, concrete_args))

Zip(params, args) == [i \in 1..Min({Len(params), Len(args)}) |-> Entry(params[i], args[i])]

\* the dict concrete_type_hints returns, or the exception it raises
RECURSIVE concrete_hints_loop(_, _, _)
concrete_hints_loop(bindings, hints, concrete_hints) ==
    IF hints = <<>> THEN Ok(concrete_hints)
    ELSE LET r == concrete_type(bindings, Head(hints).type)
         IN IF r.tag = "Ok"
            THEN concrete_hints_loop(bindings, Tail(hints),
                                     Append(concrete_hints, Entry(Head(hints).name, r.value)))
            ELSE IF r.tag = "Err" THEN Raise("UnboundTypeVar")
            ELSE r

concrete_type_hints_of(ref) ==
    LET origin == get_type_constructor(ref)
        hints == get_type_hints(origin.name)
    IN IF Len(hints) = 0 THEN Ok(<<>>)
       ELSE LET params == get_type_parameters(origin)
                args == get_type_arguments(ref) \o [i \in 1..Len(params) |-> AnyT]
            IN concrete_hints_loop(Zip(params, args), hints, <<>>)

TypeVars == {TypeVarT("T"), TypeVarT("U")}
TypeArguments == {IntT, StrT, ListT(StrT)}
TypeLeaves == {IntT, StrT, AnyT} \cup TypeVars
Wrapped(x) ==
    {ListT(x), DictT(StrT, x), UnionOf("Union", <<IntT, x>>), OptionalT(x),
     CallableT(<<x>>, IntT), GenericT("Box", <<x>>)}
TypeExpressions ==
    TypeLeaves
    \cup UNION {Wrapped(x) : x \in TypeLeaves}
    \cup {ListT(w) : w \in UNION {Wrapped(x) : x \in TypeVars}}
    \cup {UnionTypeT(<<IntT, NoneT>>), UnionTypeT(<<ListT(TypeVarT("T")), NoneT>>),
          ListT(UnionTypeT(<<IntT, StrT>>)), EmptyTupleT, BareT("list"),
          LiteralT(<<StrV(<<"x">>)>>), ClassT("Plain")}
Bindings ==
    {<<>>}
    \cup {<<Entry(v, a)>> : v \in TypeVars, a \in TypeArguments}
    \cup {<<Entry(TypeVarT("T"), a), Entry(TypeVarT("U"), b)>> : a \in TypeArguments, b \in TypeArguments}
ClassReferences ==
    {ClassT(c) : c \in GenericClasses}
    \cup {GenericT(c, <<a>>) : c \in {"Box", "Empty", "Handler"}, a \in TypeArguments}
    \cup {GenericT("Two", <<a, b>>) : a \in TypeArguments \cup {TypeVarT("U")}, b \in TypeArguments}

InitTypes ==
    /\ union_type_subscriptable \in BOOLEAN
    /\ \/ /\ bound \in Bindings /\ generic \in TypeExpressions /\ concrete = NoValue
          /\ tpc = "concrete_type"
       \/ /\ bound = <<>> /\ generic = NoValue /\ concrete \in ClassReferences
          /\ tpc = "concrete_type_hints"
    /\ resolved = NoValue
    /\ IdleButTyp

ConcreteType ==
    /\ tpc = "concrete_type"
    /\ resolved' = concrete_type(bound, generic)
    /\ tpc' = "done"
    /\ UNCHANGED <<bound, generic, concrete, union_type_subscriptable>>
    /\ UNCHANGED butTyp

ConcreteTypeHints ==
    /\ tpc = "concrete_type_hints"
    /\ resolved' = concrete_type_hints_of(concrete)
    /\ tpc' = "done"
    /\ UNCHANGED <<bound, generic, concrete, union_type_subscriptable>>
    /\ UNCHANGED butTyp

NextTypes == ConcreteType \/ ConcreteTypeHints

SpecTypes == InitTypes /\ [][NextTypes]_vars

(***************************************************************************)
(* common/command/execute_command_handler.py: retrying_on_failure, one     *)
(* step per iteration of its loop.                                         *)
(***************************************************************************)
MaxRetries == 2

Responds(r) == [do |-> "return", result |-> r]
RuntimeError(message, cause) ==
    [cls |-> "RuntimeError", is_exception |-> TRUE, message |-> message, cause |-> cause]
Responded(r) == [kind |-> "returned", value |-> r]

ActionOutcomes ==
    {Responds(StrV(<<"r1">>)), Responds(StrV(<<"r2">>)),
     Raises(OtherError("ValueError", <<"e1">>)), Raises(OtherError("TimeoutError", <<"e2">>)),
     Raises(BaseOnly("CancelledError"))}

InitRetry ==
    /\ max_retries \in -1..MaxRetries
    /\ action \in {s \in SeqsUpTo(ActionOutcomes, MaxRetries + 1) : Len(s) = MaxRetries + 1}
    /\ retry_count = 0 /\ error = NoValue /\ awaited = <<>> /\ retried = NoValue
    /\ ypc = "loop"
    /\ IdleButRetry

\* (mutant) the loop goes on after a response
RetryAttempt_goes_on ==
    /\ ypc = "loop" /\ retry_count < max_retries
    /\ LET o == action[Len(awaited) + 1]
       IN /\ awaited' = Append(awaited, o)
          /\ IF o.do = "return"
             THEN /\ retried' = Responded(o.result)
                  /\ retry_count' = retry_count + 1
                  /\ UNCHANGED <<error, ypc>>
             ELSE IF IsException(o.exc)
             THEN /\ error' = o.exc /\ retry_count' = retry_count + 1
                  /\ UNCHANGED <<retried, ypc>>
             ELSE /\ retried' = Propagated(o.exc) /\ ypc' = "done"
                  /\ UNCHANGED <<error, retry_count>>
    /\ UNCHANGED <<max_retries, action>>
    /\ UNCHANGED butRetry

\* one iteration of the while loop: await action(); return its response, or
\* catch the Exception it raised and count it
RetryAttempt ==
    /\ ypc = "loop" /\ retry_count < max_retries
    /\ LET o == action[Len(awaited) + 1]
       IN /\ awaited' = Append(awaited, o)
          /\ IF o.do = "return"
             THEN /\ retried' = Responded(o.result) /\ ypc' = "done"
                  /\ UNCHANGED <<error, retry_count>>
             ELSE IF IsException(o.exc)
             THEN /\ error' = o.exc /\ retry_count' = retry_count + 1
                  /\ UNCHANGED <<retried, ypc>>
             ELSE /\ retried' = Propagated(o.exc) /\ ypc' = "done"
                  /\ UNCHANGED <<error, retry_count>>
    /\ UNCHANGED <<max_retries, action>>
    /\ UNCHANGED butRetry

\* the loop is left without a response
RetryExhausted ==
    /\ ypc = "loop" /\ ~(retry_count < max_retries)
    /\ retried' = IF error = NoValue
                  THEN Propagated(RuntimeError(<<"Retries exhausted without an error">>, NoneV))
                  ELSE Propagated(RuntimeError(<<"Unable to complete after ">> \o IntStr(max_retries)
                                               \o <<" retries: ">> \o error.message, error))
    /\ ypc' = "done"
    /\ UNCHANGED <<max_retries, action, retry_count, error, awaited>>
    /\ UNCHANGED butRetry

NextRetry == RetryAttempt \/ RetryExhausted

SpecRetry == InitRetry /\ [][NextRetry]_vars

(***************************************************************************)
(* domains/commit/command/commit.py: execute_commit_flow, one step per     *)
(* check, and interaction_loop, one step per call.  What the environment,  *)
(* git, the LLM and the user answer is chosen at each step.                *)
(***************************************************************************)
MaxRounds == 2

MissingApiKey == [cls |-> "MissingApiKey"]
NotGitRepo == [cls |-> "NotGitRepo"]
GitError(message) == [cls |-> "GitError", message |-> message]
NoStagedChanges == [cls |-> "NoStagedChanges"]
EmptyAIResponse == [cls |-> "EmptyAIResponse"]
UnsupportedAction(name) == [cls |-> "UnsupportedAction", action |-> name]

CommitState(api_key, cwd, diff, message) ==
    [api_key |-> api_key, cwd |-> cwd, diff |-> diff, message |-> message]
with_message_and_diff(self, new_message) == [self EXCEPT !.message = new_message, !.diff = new_message]
with_message(self, new_message) == [self EXCEPT !.message = new_message]
RegenerateSignal(st) == [cls |-> "RegenerateSignal", state |-> st]
AdjustSignal(st) == [cls |-> "AdjustSignal", state |-> st]
CommandResponse(message, commit_message, name, git_output) ==
    [cls |-> "CommandResponse", message |-> message, commit_message |-> commit_message,
     action |-> name, git_output |-> git_output]

\* str.strip(), on a text given as its pieces
Whitespace == {" ", "\n"}
RECURSIVE LStrip(_)
LStrip(text) == IF text # <<>> /\ Head(text) \in Whitespace THEN LStrip(Tail(text)) ELSE text
RECURSIVE RStrip(_)
RStrip(text) ==
    IF text # <<>> /\ text[Len(text)] \in Whitespace THEN RStrip(SubSeq(text, 1, Len(text) - 1)) ELSE text
Strip(text) == RStrip(LStrip(text))

validate_api_key(api_key) ==
    IF api_key = NoneV \/ api_key.s = <<>> THEN Err(MissingApiKey) ELSE Ok(api_key.s)

validate_git_repo(path, returncode) ==
    IF returncode # 0 THEN Err(NotGitRepo) ELSE Ok(path)

get_staged_diff(path, run) ==
    IF run.returncode # 0
    THEN Err(GitError(IF Strip(run.stderr) # <<>> THEN Strip(run.stderr)
                      ELSE <<"Failed to get staged changes">>))
    ELSE IF Strip(run.stdout) = <<>> THEN Err(NoStagedChanges)
    ELSE Ok(run.stdout)

validate_action(name) ==
    IF name # <<"generate">> THEN Err(UnsupportedAction(name)) ELSE Ok(<<"generate">>)

\* common/result.py async_try_catch, on what the awaited call does
async_try_catch(call) ==
    IF call.do = "return" THEN Ok(call.result)
    ELSE IF IsException(call.exc) THEN Err(call.exc)
    ELSE Raise(call.exc)

generate_message(call) ==
    LET result == async_try_catch(call)
    IN IF result.tag = "Ok"
       THEN (IF Strip(result.value) = <<>> THEN Err(EmptyAIResponse) ELSE Ok(result.value))
       ELSE result

refine_message(call) ==
    LET result == async_try_catch(call)
    IN IF result.tag = "Ok"
       THEN (IF Strip(result.value) = <<>> THEN Err(EmptyAIResponse) ELSE Ok(result.value))
       ELSE result

\* the lines git prints that do not start with "["
HeaderLines == {"[main 1a2b] m"}
RECURSIVE StatsOnly(_)
StatsOnly(lines) ==
    IF lines = <<>> THEN <<>>
    ELSE IF Head(lines) \in HeaderLines THEN StatsOnly(Tail(lines))
    ELSE <<<<Head(lines)>>>> \o StatsOnly(Tail(lines))

perform_commit(run) ==
    IF run.returncode # 0
    THEN Err(GitError(IF run.output # <<>> THEN run.output ELSE <<"Commit failed">>))
    ELSE Ok(<<"\n">> \o Join(StatsOnly(run.output), "\n") \o <<"\n">>)

perform_push(run) ==
    IF run.returncode # 0
    THEN Err(GitError(IF run.output # <<>> THEN run.output ELSE <<"Push failed">>))
    ELSE Ok(run.output)

GitRun(cmd, run) == [op |-> "git", cmd |-> cmd, returncode |-> run.returncode]
CallOf(op, result) == [op |-> op, result |-> result]
Prompted(raw, st) == [op |-> "select_option", raw |-> raw, state |-> st]

\* (mutant) git push runs whatever git commit exited with
handle_selection_always_pushes(selection, st, git) ==
    LET committed == perform_commit(git.commit)
        pushed == perform_push(git.push)
    IN CASE selection = "commit" ->
              [ran |-> <<GitRun("commit", git.commit)>>,
               result |-> IF committed.tag = "Err" THEN Err(committed.error)
                          ELSE Ok(CommandResponse(<<"commit">>, st.message, <<"commit">>, committed.value))]
         [] selection = "commit_push" ->
              [ran |-> <<GitRun("commit", git.commit), GitRun("push", git.push)>>,
               result |-> IF committed.tag = "Err" THEN Err(committed.error)
                          ELSE IF pushed.tag = "Err" THEN Err(pushed.error)
                          ELSE Ok(CommandResponse(<<"commit_push">>, st.message, <<"commit_push">>,
                                                  committed.value \o pushed.value))]
         [] selection = "regenerate" -> [ran |-> <<>>, result |-> Ok(RegenerateSignal(st))]
         [] selection = "adjust" -> [ran |-> <<>>, result |-> Ok(AdjustSignal(st))]
         [] selection = "cancel" ->
              [ran |-> <<>>, result |-> Ok(CommandResponse(<<"cancelled">>, st.message, <<"cancel">>, NoneV))]

\* handle_selection: the Result it returns and the git commands it ran
handle_selection(selection, st, git) ==
    LET committed == perform_commit(git.commit)
        pushed == perform_push(git.push)
    IN CASE selection = "commit" ->
              [ran |-> <<GitRun("commit", git.commit)>>,
               result |-> IF committed.tag = "Err" THEN Err(committed.error)
                          ELSE Ok(CommandResponse(<<"commit">>, st.message, <<"commit">>, committed.value))]
         [] selection = "commit_push" ->
              IF committed.tag = "Err"
              THEN [ran |-> <<GitRun("commit", git.commit)>>, result |-> Err(committed.error)]
              ELSE [ran |-> <<GitRun("commit", git.commit), GitRun("push", git.push)>>,
                    result |-> IF pushed.tag = "Err" THEN Err(pushed.error)
                               ELSE Ok(CommandResponse(<<"commit_push">>, st.message, <<"commit_push">>,
                                                       committed.value \o pushed.value))]
         [] selection = "regenerate" -> [ran |-> <<>>, result |-> Ok(RegenerateSignal(st))]
         [] selection = "adjust" -> [ran |-> <<>>, result |-> Ok(AdjustSignal(st))]
         [] selection = "cancel" ->
              [ran |-> <<>>, result |-> Ok(CommandResponse(<<"cancelled">>, st.message, <<"cancel">>, NoneV))]

\* common/prompts.py text_input, on what the user typed (None: interrupted)
text_input(typed) ==
    IF typed = NoneV \/ typed.s = <<>> THEN NoneV ELSE StrV(Strip(typed.s))

Selections == {"commit", "commit_push", "regenerate", "adjust", "cancel"}
Recurse(events, st) == [events |-> events, next |-> st, result |-> NoValue]
Finish(events, result) == [events |-> events, next |-> NoValue, result |-> result]

\* one call of interaction_loop, up to its return or its recursive call:
\* the events in order, and either the state of the recursive call or the
\* result returned (or the exception raised)
interaction_loop(st, raw, git, llm, typed) ==
    LET selection == IF raw \in {StrV(<<c>>) : c \in Selections} THEN raw.s[1] ELSE "cancel"
        handled == handle_selection(selection, st, git)
        events == <<Prompted(raw, st)>> \o handled.ran
    IN IF handled.result.tag = "Err" THEN Finish(events, Err(handled.result.error))
       ELSE LET loop_result == handled.result.value
            IN CASE loop_result.cls = "RegenerateSignal" ->
                      LET s == loop_result.state
                          gen_result == generate_message(llm)
                          called == events \o <<CallOf("generate_message", gen_result)>>
                      IN IF gen_result.tag = "Ok" THEN Recurse(called, with_message(s, gen_result.value))
                         ELSE IF gen_result.tag = "Err" THEN Recurse(called, s)
                         ELSE Finish(called, gen_result)
                 [] loop_result.cls = "AdjustSignal" ->
                      LET s == loop_result.state
                          adj == text_input(typed)
                          asked == events \o <<CallOf("text_input", adj)>>
                          refine_result == refine_message(llm)
                          called == asked \o <<CallOf("refine_message", refine_result)>>
                      IN IF adj = NoneV \/ adj.s = <<>> THEN Recurse(asked, s)
                         ELSE IF refine_result.tag = "Ok"
                         THEN Recurse(called, with_message(s, refine_result.value))
                         ELSE IF refine_result.tag = "Err" THEN Recurse(called, s)
                         ELSE Finish(called, refine_result)
                 [] loop_result.cls = "CommandResponse" -> Finish(events, Ok(loop_result))

FlowActions == {<<"generate">>, <<"commit">>, <<>>}
ApiKeys == {NoneV, StrV(<<>>), StrV(<<"key">>)}
GitStatuses == {0, 128}
DiffRuns ==
    {[returncode |-> 0, stdout |-> out, stderr |-> <<>>] : out \in {<<>>, <<"\n">>, <<"+a", "\n">>, <<"-b">>}}
    \cup {[returncode |-> 1, stdout |-> <<>>, stderr |-> err] : err \in {<<>>, <<"fatal: bad index", "\n">>}}
LLMCalls ==
    {Responds(<<"feat: a">>), Responds(<<"fix: b", "\n">>), Responds(<<" ", "\n">>), Responds(<<>>),
     Raises(OtherError("ServerError", <<"quota">>)), Raises(BaseOnly("CancelledError"))}
RawSelections == {StrV(<<c>>) : c \in Selections \cup {"quit"}} \cup {NoneV}
CommitRuns ==
    {[returncode |-> 0, output |-> <<"[main 1a2b] m", " 1 file changed">>],
     [returncode |-> 1, output |-> <<>>], [returncode |-> 1, output |-> <<"nothing to commit">>]}
PushRuns == {[returncode |-> 0, output |-> <<"done">>], [returncode |-> 1, output |-> <<"rejected">>]}
GitScripts == {[commit |-> c, push |-> q] : c \in CommitRuns, q \in PushRuns}
TypedTexts == {NoneV, StrV(<<>>), StrV(<<" ">>), StrV(<<"shorter", " ">>)}
getcwd == <<"/repo">>

InitFlow ==
    /\ flow_action \in FlowActions
    /\ environ \in ApiKeys
    /\ locals = NoValue /\ commit_state = NoValue /\ log = <<>> /\ flow_result = NoValue
    /\ rounds = 0
    /\ fpc = "validate_action"
    /\ IdleButFlow

\* a check of execute_commit_flow ran and gave r: log it, return its Err or go on
Checked(op, r, then_pc) ==
    /\ log' = Append(log, CallOf(op, r))
    /\ IF r.tag = "Ok"
       THEN fpc' = then_pc /\ flow_result' = flow_result
       ELSE fpc' = "done" /\ flow_result' = r
    /\ UNCHANGED <<flow_action, environ, rounds>>
    /\ UNCHANGED butFlow

ValidateAction ==
    /\ fpc = "validate_action"
    /\ Checked("validate_action", validate_action(flow_action), "validate_api_key")
    /\ UNCHANGED <<locals, commit_state>>

ValidateApiKey ==
    /\ fpc = "validate_api_key"
    /\ LET r == validate_api_key(environ)
       IN /\ Checked("validate_api_key", r, "validate_git_repo")
          /\ locals' = IF r.tag = "Ok" THEN [api_key |-> r.value] ELSE locals
    /\ UNCHANGED commit_state

\* (mutant) the flow goes on when the directory is not a repository
ValidateGitRepo_goes_on ==
    /\ fpc = "validate_git_repo"
    /\ \E returncode \in GitStatuses :
          /\ log' = Append(log, CallOf("validate_git_repo", validate_git_repo(getcwd, returncode)))
          /\ fpc' = "get_staged_diff" /\ flow_result' = flow_result
          /\ locals' = [api_key |-> locals.api_key, cwd |-> getcwd]
    /\ UNCHANGED <<flow_action, environ, rounds, commit_state>>
    /\ UNCHANGED butFlow

ValidateGitRepo ==
    /\ fpc = "validate_git_repo"
    /\ \E returncode \in GitStatuses :
          /\ Checked("validate_git_repo", validate_git_repo(getcwd, returncode), "get_staged_diff")
          /\ locals' = [api_key |-> locals.api_key, cwd |-> getcwd]
    /\ UNCHANGED commit_state

GetStagedDiff ==
    /\ fpc = "get_staged_diff"
    /\ \E run \in DiffRuns :
          LET r == get_staged_diff(locals.cwd, run)
          IN /\ Checked("get_staged_diff", r, "generate_message")
             /\ locals' = IF r.tag = "Ok"
                          THEN [api_key |-> locals.api_key, cwd |-> locals.cwd, diff |-> r.value]
                          ELSE locals
    /\ UNCHANGED commit_state

GenerateMessage ==
    /\ fpc = "generate_message"
    /\ \E llm \in LLMCalls :
          LET r == generate_message(llm)
          IN /\ log' = Append(log, CallOf("generate_message", r))
             /\ IF r.tag = "Ok"
                THEN /\ commit_state' = CommitState(locals.api_key, locals.cwd, locals.diff, r.value)
                     /\ fpc' = "interaction_loop" /\ flow_result' = flow_result
                ELSE /\ commit_state' = commit_state
                     /\ fpc' = "done"
                     /\ flow_result' = IF r.tag = "Raise" THEN r
                                       ELSE IF r.error = EmptyAIResponse THEN Err(r.error)
                                       ELSE Err(GitError(r.error.message))
    /\ UNCHANGED <<flow_action, environ, locals, rounds>>
    /\ UNCHANGED butFlow

InteractionLoop ==
    /\ fpc = "interaction_loop" /\ rounds < MaxRounds
    /\ \E raw \in RawSelections, git \in GitScripts, llm \in LLMCalls, typed \in TypedTexts :
          LET r == interaction_loop(commit_state, raw, git, llm, typed)
          IN /\ log' = log \o r.events
             /\ IF r.result = NoValue
                THEN commit_state' = r.next /\ UNCHANGED <<flow_result, fpc>>
                ELSE flow_result' = r.result /\ fpc' = "done" /\ UNCHANGED commit_state
    /\ rounds' = rounds + 1
    /\ UNCHANGED <<flow_action, environ, locals>>
    /\ UNCHANGED butFlow

NextFlow ==
    \/ ValidateAction \/ ValidateApiKey \/ ValidateGitRepo \/ GetStagedDiff
    \/ GenerateMessage \/ InteractionLoop

SpecFlow == InitFlow /\ [][NextFlow]_vars

(***************************************************************************)
(* common/updater.py: update_package, one step per update method.          *)
(***************************************************************************)
PACKAGE_NAME == "quick-assistant"
SubprocessError(cmdline, exit_code, stderr) ==
    [cls |-> "SubprocessError", command |-> cmdline, exit_code |-> exit_code, stderr |-> stderr]
CompletedProcess(returncode, stdout, stderr) ==
    [found |-> TRUE, returncode |-> returncode, stdout |-> stdout, stderr |-> stderr]
FileNotFound == [found |-> FALSE]

\* run_command(cmd), the command being found or not and completing as run says
run_command(cmd, run) ==
    IF run.found THEN Ok(run)
    ELSE Err(SubprocessError(Join([i \in 1..Len(cmd) |-> <<cmd[i]>>], " "), 127,
                             <<"[Errno 2] No such file or directory: ", cmd[1]>>))

\* str.lower() of a path part
Lower(part) ==
    CASE part = "UV" -> "uv"
      [] part = "Tools" -> "tools"
      [] part = "Quick-Assistant" -> "quick-assistant"
      [] OTHER -> part

is_uv_tool_install(exe_path) ==
    LET parts == {Lower(exe_path[i]) : i \in 1..Len(exe_path)}
    IN "uv" \in parts /\ "tools" \in parts /\ PACKAGE_NAME \in parts

\* the match on the result of run_command that the three try_* functions share
Updated(cmd, result) ==
    IF result.tag = "Ok"
    THEN (IF result.value.returncode = 0 THEN Ok(NoneV)
          ELSE Err(SubprocessError(Join([i \in 1..Len(cmd) |-> <<cmd[i]>>], " "), result.value.returncode,
                                   IF result.value.stderr # <<>> THEN result.value.stderr
                                   ELSE IF result.value.stdout # <<>> THEN result.value.stdout
                                   ELSE <<"Unknown error">>)))
    ELSE result

UvCmd == <<"uv", "tool", "install", PACKAGE_NAME, "--force">>
PipxCmd == <<"pipx", "upgrade", PACKAGE_NAME>>
PipCmd(exe_path) == <<exe_path[Len(exe_path)], "-m", "pip", "install", "--upgrade", PACKAGE_NAME>>

try_uv_update(run) == Updated(UvCmd, run_command(UvCmd, run))
try_pipx_update(run) == Updated(PipxCmd, run_command(PipxCmd, run))
try_pip_update(exe_path, run) == Updated(PipCmd(exe_path), run_command(PipCmd(exe_path), run))

Executables ==
    {<<"/", "home", "u", ".local", "share", "uv", "tools", "quick-assistant", "bin", "python">>,
     <<"/", "Users", "u", "UV", "Tools", "Quick-Assistant", "bin", "python">>,
     <<"/", "home", "uv", "venv", "bin", "python">>,
     <<"/", "usr", "bin", "python3">>}
Runs ==
    {CompletedProcess(0, <<"ok">>, <<>>), CompletedProcess(1, <<>>, <<"boom">>),
     CompletedProcess(2, <<"out">>, <<>>), CompletedProcess(1, <<>>, <<>>), FileNotFound}

Attempt(method, result) == [method |-> method, result |-> result]

InitUpdate ==
    /\ executable \in Executables
    /\ attempts = <<>> /\ update_result = NoValue
    /\ upc = "uv"
    /\ IdleButUpd

\* (mutant) uv is tried wherever the program runs from
UpdateUv_unconditional ==
    /\ upc = "uv"
    /\ \E run \in Runs :
          LET r == try_uv_update(run)
          IN /\ attempts' = Append(attempts, Attempt("uv", r))
             /\ IF r.tag = "Ok"
                THEN update_result' = Ok("uv") /\ upc' = "done"
                ELSE update_result' = update_result /\ upc' = "pipx"
    /\ UNCHANGED executable
    /\ UNCHANGED butUpd

\* if is_uv_tool_install() and try_uv_update().is_ok: return Result.ok("uv")
UpdateUv ==
    /\ upc = "uv"
    /\ IF is_uv_tool_install(executable)
       THEN \E run \in Runs :
               LET r == try_uv_update(run)
               IN /\ attempts' = Append(attempts, Attempt("uv", r))
                  /\ IF r.tag = "Ok"
                     THEN update_result' = Ok("uv") /\ upc' = "done"
                     ELSE update_result' = update_result /\ upc' = "pipx"
       ELSE /\ upc' = "pipx"
            /\ UNCHANGED <<attempts, update_result>>
    /\ UNCHANGED executable
    /\ UNCHANGED butUpd

\* if try_pipx_update().is_ok: return Result.ok("pipx")
UpdatePipx ==
    /\ upc = "pipx"
    /\ \E run \in Runs :
          LET r == try_pipx_update(run)
          IN /\ attempts' = Append(attempts, Attempt("pipx", r))
             /\ IF r.tag = "Ok"
                THEN update_result' = Ok("pipx") /\ upc' = "done"
                ELSE update_result' = update_result /\ upc' = "pip"
    /\ UNCHANGED executable
    /\ UNCHANGED butUpd

\* return try_pip_update().map(lambda _: "pip")
UpdatePip ==
    /\ upc = "pip"
    /\ \E run \in Runs :
          LET r == try_pip_update(executable, run)
          IN /\ attempts' = Append(attempts, Attempt("pip", r))
             /\ update_result' = IF r.tag = "Ok" THEN Ok("pip") ELSE r
    /\ upc' = "done"
    /\ UNCHANGED executable
    /\ UNCHANGED butUpd

NextUpdate == UpdateUv \/ UpdatePipx \/ UpdatePip

SpecUpdate == InitUpdate /\ [][NextUpdate]_vars

(***************************************************************************)
(* Properties.                                                             *)
(***************************************************************************)
Contains(msg, sub) == \E i \in 0..(Len(msg) - Len(sub)) : SubSeq(msg, i + 1, i + Len(sub)) = sub
Pos(msg, sub) == Min({i \in 0..(Len(msg) - Len(sub)) : SubSeq(msg, i + 1, i + Len(sub)) = sub})
StartsWith(msg, pre) == Len(msg) >= Len(pre) /\ SubSeq(msg, 1, Len(pre)) = pre

Decoded == pc = "done" /\ built # NoValue
RoundTrip == Decoded /\ value # NoValue
RawDecode == Decoded /\ value = NoValue
Fill == options.fill_missing_optionals

Primitives == {StrT, BoolT, FloatT, IntT, NoneT}
KindName(ty) == IF ty.t = "NoneType" THEN "None" ELSE ty.t

\* Every type nested in ty matches a rule of the dispatch table.
RECURSIVE FullySupported(_)
FullySupported(ty) ==
    IF ty.t \in {"Any", "str", "bool", "float", "int", "NoneType", "Decimal", "Literal"} THEN TRUE
    ELSE IF ty.t \in {"list", "set", "dict", "Union"}
    THEN \A i \in 1..Len(ty.args) : FullySupported(ty.args[i])
    ELSE IF ty.t = "NewType" THEN FullySupported(ty.supertype)
    ELSE IF ty.t = "class"
    THEN \A i \in 1..Len(get_type_hints(ty.name)) : FullySupported(get_type_hints(ty.name)[i].type)
    ELSE FALSE

FieldOf(obj, name) == GetItem(obj.f, name)

\* C1: encoding a record with to_json and decoding the result against its
\* class, with fill_missing_optionals false, returns Ok of an equal record.
C1_RoundTrip == (RoundTrip /\ target.t = "class" /\ ~Fill) => outcome = Ok(value)

\* C2: against str, bool, float, int and None the parser returns Ok(input)
\* exactly when the input has that runtime type, and otherwise the Err
\* "Expected <type> but found <shape>"; so a bool against int is rejected.
C2_PrimitiveExact ==
    (RawDecode /\ target \in Primitives) =>
        outcome = IF input.k = target.t THEN Ok(input)
                  ELSE Err(<<"Expected ", KindName(target), " but found ", input.k>>)

\* C3: a union returns Ok(v) iff exactly one member returns Ok (v being its
\* value); when no member succeeds it returns one Err holding every member's
\* error in member order; when several succeed it returns the ambiguity Err.
MemberResults == [i \in 1..Len(target.args) |-> parse(target.args[i], input, options)]
MemberOks == {i \in 1..Len(target.args) : MemberResults[i].tag = "Ok"}
C3_UnionExactlyOne ==
    /\ (RawDecode /\ target.t = "Union") =>
          /\ outcome.tag = "Ok" <=> Cardinality(MemberOks) = 1
          /\ Cardinality(MemberOks) = 1 => outcome = MemberResults[CHOOSE i \in MemberOks : TRUE]
          /\ MemberOks = {} =>
                /\ outcome.tag = "Err"
                /\ \A i \in 1..Len(target.args) :
                      /\ MemberResults[i].tag = "Err"
                      /\ Contains(outcome.error, MemberResults[i].error)
                      /\ \A j \in 1..(i - 1) : Pos(outcome.error, MemberResults[j].error)
                                                  <= Pos(outcome.error, MemberResults[i].error)
          /\ Cardinality(MemberOks) >= 2 =>
                outcome.tag = "Err" /\ StartsWith(outcome.error, <<"Ambiguous parse of ">>)
    /\ (RawDecode /\ target = ClassT("Value") /\ input = Dict1("value", IntV(5))) =>
          outcome = Ok(ObjV("Value", <<Entry(<<"value">>, IntV(5))>>))

\* C4: for a type every part of which has a parser, try_parse_json returns
\* Ok or Err for every JSON value and never raises.
C4_NeverRaises == (Decoded /\ FullySupported(target)) => outcome.tag \in {"Ok", "Err"}

\* C5: a type with a part that matches no dispatch rule makes parser_for
\* raise, so no parser is returned for it, and a returned parser never
\* raises the unsupported-type error while decoding.
C5_RaisedAtConstruction ==
    /\ pc \in {"decode", "done"} => FullySupported(target)
    /\ pc = "done" => outcome # Raise("ValueError: No JSON parser available")

\* The declared fields of the target record that are present in the input
\* and do not decode to Ok, and the first of them in declaration order.
Hints == get_type_hints(target.name)
Present(i) == HasKey(input.d, StrV(Hints[i].name))
FieldResult(i) == parse(Hints[i].type, GetItem(input.d, StrV(Hints[i].name)), options)
FailingFields == {i \in 1..Len(Hints) : Present(i) /\ FieldResult(i).tag # "Ok"}
ElementType == IF target.args = <<>> THEN AnyT ELSE target.args[1]
ElementResult(i) == parse(ElementType, input.l[i], options)
FailingElements == {i \in 1..Len(input.l) : ElementResult(i).tag # "Ok"}
KeyResult(i) == parse(IF target.args = <<>> THEN AnyT ELSE target.args[1], input.d[i].key, options)
ValResult(i) == parse(IF target.args = <<>> THEN AnyT ELSE target.args[2], input.d[i].val, options)
FailingEntries == {i \in 1..Len(input.d) : KeyResult(i).tag # "Ok" \/ ValResult(i).tag # "Ok"}
NestedExample == Dict1("a", Dict1("b", StrV(<<"not-an-int">>)))

\* The breadcrumb formats of the decode errors, for given leading words.
Formats(fieldTok, indexTok, keyNameTok, keyTok) ==
    RawDecode =>
      /\ (target.t = "class" /\ input.k = "dict" /\ FailingFields # {}
            /\ FieldResult(Min(FailingFields)).tag = "Err") =>
            outcome = Err(<<fieldTok>> \o Hints[Min(FailingFields)].name \o <<"': ">>
                          \o FieldResult(Min(FailingFields)).error)
      /\ (target.t = "list" /\ input.k = "list" /\ FailingElements # {}
            /\ ElementResult(Min(FailingElements)).tag = "Err") =>
            outcome = Err(<<indexTok>> \o IntStr(Min(FailingElements) - 1) \o <<": ">>
                          \o ElementResult(Min(FailingElements)).error)
      /\ (target.t = "dict" /\ input.k = "dict" /\ FailingEntries # {}
            /\ KeyResult(Min(FailingEntries)).tag # "Raise"
            /\ ValResult(Min(FailingEntries)).tag # "Raise") =>
            /\ outcome.tag = "Err"
            /\ StartsWith(outcome.error,
                   <<IF KeyResult(Min(FailingEntries)).tag = "Err" THEN keyNameTok ELSE keyTok>>
                   \o PyStr(input.d[Min(FailingEntries)].key) \o <<": ">>)
      /\ (target \in Primitives /\ outcome.tag = "Err") =>
            outcome.error = <<"Expected ", KindName(target), " but found ", TypeName(input)>>
      /\ (target.t \in {"list", "set", "dict", "class"} /\ input.k # (IF target.t = "dict" \/ target.t = "class" THEN "dict" ELSE "list")) =>
            /\ outcome.tag = "Err"
            /\ Len(outcome.error) >= 4
            /\ outcome.error[1] = "Expected " /\ outcome.error[3] = " but found "
            /\ outcome.error[4] = TypeName(input)
            /\ target.t # "class" => Len(outcome.error) = 4
      /\ (target = ClassT("Outer") /\ input = NestedExample) =>
            /\ outcome.tag = "Err"
            /\ Contains(outcome.error, <<fieldTok, "a", "': ", fieldTok, "b", "': ">>)

DeclaredOptional(typ) == typ.t = "Union" /\ NoneT \in {typ.args[j] : j \in 1..Len(typ.args)}

Names(msg, name) == Contains(msg, <<"'">> \o name \o <<"'">>)

\* What holds of field i of the target record when it is absent from the
\* input; reached says when an absent required field must be reported.
AbsentField(i, reached) ==
    IF Fill /\ DeclaredOptional(Hints[i].type)
    THEN /\ ctor_args.called =>
              HasKey(ctor_args.args, Hints[i].name) /\ GetItem(ctor_args.args, Hints[i].name) = NoneV
         /\ outcome.tag = "Ok" => FieldOf(outcome.value, Hints[i].name) = NoneV
    ELSE /\ ctor_args.called => ~HasKey(ctor_args.args, Hints[i].name)
         /\ outcome.tag = "Ok" =>
              Hints[i].has_default /\ FieldOf(outcome.value, Hints[i].name) = Hints[i].default
         /\ (~Hints[i].has_default /\ reached) =>
              outcome.tag = "Err" /\ Names(outcome.error, Hints[i].name)

AbsentFields(reached) ==
    (RawDecode /\ target.t = "class" /\ input.k = "dict") =>
        \A i \in 1..Len(Hints) : ~Present(i) => AbsentField(i, reached)

RECURSIVE AllOptionalsPresent(_, _)
AllOptionalsPresent(ty, json) ==
    IF ty.t = "class"
    THEN json.k = "dict" =>
           \A i \in 1..Len(get_type_hints(ty.name)) :
              LET h == get_type_hints(ty.name)[i]
              IN IF HasKey(json.d, StrV(h.name))
                 THEN AllOptionalsPresent(h.type, GetItem(json.d, StrV(h.name)))
                 ELSE ~DeclaredOptional(h.type)
    ELSE IF ty.t \in {"list", "set"}
    THEN (json.k = "list" /\ ty.args # <<>>) =>
           \A i \in 1..Len(json.l) : AllOptionalsPresent(ty.args[1], json.l[i])
    ELSE IF ty.t = "dict"
    THEN (json.k = "dict" /\ ty.args # <<>>) =>
           \A i \in 1..Len(json.d) : AllOptionalsPresent(ty.args[2], json.d[i].val)
    ELSE IF ty.t = "Union" THEN \A i \in 1..Len(ty.args) : AllOptionalsPresent(ty.args[i], json)
    ELSE IF ty.t = "NewType" THEN AllOptionalsPresent(ty.supertype, json)
    ELSE TRUE

\* C8: on an input in which every optional field is present, decoding with
\* fill_missing_optionals true and with false gives the same outcome.
C8_FillIdempotent ==
    (Decoded /\ AllOptionalsPresent(target, input)) =>
        outcome = try_parse_json(target, input, ParsingOptions(~Fill))

C8_Witness ==
    /\ RawDecode /\ Fill /\ target = ClassT("Def")
    /\ input = Dict2("b", IntV(1), "x", NoneV)
    /\ outcome = Ok(ObjV("Def", <<Entry(<<"x">>, NoneV), Entry(<<"b">>, IntV(1))>>))

(***************************************************************************)
(* Properties of execute_command_handler.                                  *)
(***************************************************************************)
DecodeFails == json_parser_try_parse_json(request_data).tag = "Err"
\* What the try block runs into: the factory's exception, or else what
\* handle_command does.
Effective == IF script.factory.do = "raise" THEN script.factory ELSE script.handle
Finished == cpc = "done"
Handled == Finished /\ ~DecodeFails
Uncaught(exc) == exc.cls \notin DeclaredFailures /\ IsException(exc)
ResponseMessage == GetItem(GetItem(response.content.d, StrV(<<"error">>)).d, StrV(<<"message">>)).s

\* The status rules; every says whether every exception is answered.
StatusRules(every) ==
    /\ (Finished /\ DecodeFails) => response.kind = "returned" /\ response.status = 400
    /\ (Handled /\ Effective.do = "return") => response = Returned(Effective.result)
    /\ (Handled /\ Effective.do = "raise") =>
          IF Effective.exc.cls = "Fail"
          THEN response.kind = "returned" /\ response.status = Effective.exc.code
          ELSE IF Effective.exc.cls = "Forbidden"
          THEN response.kind = "returned" /\ response.status = 403
          ELSE IF Effective.exc.cls = "Unauthorized"
          THEN response.kind = "returned" /\ response.status = 401
          ELSE IF Effective.exc.cls = "BadRequest"
          THEN response.kind = "returned" /\ response.status = 400
          ELSE IF every \/ IsException(Effective.exc)
          THEN response.kind = "returned" /\ response.status = 500
          ELSE response = Propagated(Effective.exc)

\* C9 (as claimed): execute_command_handler always returns a pair and
\* propagates no exception: 400 for a payload that does not decode, the
\* failure's own code for Fail, 403, 401 and 400 for Forbidden, Unauthorized
\* and BadRequest, 500 for any other exception, and the handler's own pair
\* when it returns.
C9_NeverPropagates == StatusRules(TRUE)

\* C9 (amended): the same for every exception that derives from Exception;
\* one that derives from BaseException only (KeyboardInterrupt, SystemExit,
\* asyncio.CancelledError) is not caught and propagates to the caller.
C9_StatusRules == StatusRules(FALSE)

C9_Witness ==
    /\ Handled /\ script.factory.do = "return" /\ script.handle = Raises(Unauthorized(<<"who">>))
    /\ calls = <<"try_parse_json", "command_handler", "handle_command">>
    /\ response.kind = "returned" /\ response.status = 401

\* C10: the message of the 500 response to an exception that is not a
\* declared failure is redacted: it is the one any other such exception
\* gets, and holds none of the exception's text.
C10_Redacted ==
    (Handled /\ Effective.do = "raise" /\ Uncaught(Effective.exc)) =>
        /\ response.kind = "returned" /\ response.status = 500
        /\ \A e \in {x \in Exceptions : Uncaught(x)} : response = Catch(e)
        /\ Effective.exc.message # <<>> => ~Contains(ResponseMessage, Effective.exc.message)

HandlerCalls == {i \in 1..Len(calls) : calls[i] \in {"command_handler", "handle_command"}}

\* C11: in every execution of execute_command_handler the decode of the
\* payload has completed before the handler factory is called or
\* handle_command starts, and when the decode returns Err neither of them is
\* ever invoked.
C11_DecodeBeforeHandler ==
    /\ DecodeFails => HandlerCalls = {}
    /\ (Finished /\ DecodeFails) => calls = <<"try_parse_json">>
    /\ HandlerCalls # {} =>
          /\ calls[1] = "try_parse_json"
          /\ \A i \in HandlerCalls : i > 1
          /\ command = json_parser_try_parse_json(request_data).value

C11_Witness ==
    /\ Finished /\ DecodeFails
    /\ calls = <<"try_parse_json">> /\ command = NoValue
    /\ script.factory.do = "return" /\ script.handle.do = "return"

(***************************************************************************)
(* Properties of the encoder.                                              *)
(***************************************************************************)
Encoded == value # NoValue /\ pc # "encode"
EncodeRaised == Encoded /\ IsRaise(input)

\* A JSON Value: a string, a number, a boolean, null, a sequence of JSON
\* Values or a mapping from strings to JSON Values.
RECURSIVE IsJsonValue(_)
IsJsonValue(v) ==
    IF v.k \in {"str", "int", "float", "bool", "NoneType"} THEN TRUE
    ELSE IF v.k = "list" THEN \A i \in 1..Len(v.l) : IsJsonValue(v.l[i])
    ELSE IF v.k = "dict"
    THEN \A i \in 1..Len(v.d) : v.d[i].key.k = "str" /\ IsJsonValue(v.d[i].val)
    ELSE FALSE

\* Every component of v is of a kind the encoder supports, and every mapping
\* key is a string.
RECURSIVE Encodable(_)
Encodable(v) ==
    IF v.k \in {"str", "int", "float", "bool", "NoneType", "Decimal"} THEN TRUE
    ELSE IF v.k = "list" THEN \A i \in 1..Len(v.l) : Encodable(v.l[i])
    ELSE IF v.k = "set" THEN \A x \in v.e : Encodable(x)
    ELSE IF v.k = "dict"
    THEN \A i \in 1..Len(v.d) : v.d[i].key.k = "str" /\ Encodable(v.d[i].val)
    ELSE IF v.k = "obj" THEN \A i \in 1..Len(v.f) : Encodable(v.f[i].val)
    ELSE FALSE

\* C12: whenever to_json returns, what it returns is a JSON Value (mapping
\* keys all strings), a record encodes to a mapping with exactly one entry
\* per declared field, and an input with a component of no supported kind
\* (a mapping key that is not a string included) raises the encode error.
C12_JsonValue ==
    Encoded =>
        /\ ~IsRaise(input) => IsJsonValue(input)
        /\ (~IsRaise(input) /\ value.k = "obj") =>
              /\ input.k = "dict"
              /\ [i \in 1..Len(input.d) |-> input.d[i].key]
                   = [i \in 1..Len(get_type_hints(value.cls)) |-> StrV(get_type_hints(value.cls)[i].name)]
        /\ ~Encodable(value) => IsRaise(input)

(***************************************************************************)
(* Properties of Result.                                                   *)
(***************************************************************************)
Traversed == rpc = "done" /\ fn # NoValue
Failing == {i \in 1..Len(xs) : fn[xs[i]].tag = "Err"}

\* C13: Result.traverse(items, f) applies f to the items in list order; when
\* every application is Ok it returns Ok of the values, in order and as many
\* as the items; otherwise it returns the Err of the lowest failing index and
\* f is applied to no item after that one.
C13_Traverse ==
    Traversed =>
        /\ \A j \in 1..Len(invoked) : invoked[j] = Applied(j, xs[j])
        /\ IF Failing = {}
           THEN /\ returned = Ok([i \in 1..Len(xs) |-> fn[xs[i]].value])
                /\ Len(returned.value) = Len(xs)
                /\ Len(invoked) = Len(xs)
           ELSE /\ returned = Err(fn[xs[Min(Failing)]].error)
                /\ Len(invoked) = Min(Failing)
        /\ returned = traverse(xs, LAMBDA x : fn[x])

C13_Witness ==
    /\ Traversed /\ Len(xs) = 3 /\ Min(Failing \cup {9}) = 2 /\ 3 \in Failing
    /\ fn[xs[2]].error # fn[xs[3]].error
    /\ Len(invoked) = 2 /\ returned = Err(fn[xs[2]].error)

StepsDone == 1..(Len(trail) - 1)
AppliedAt(n) == {j \in 1..Len(invoked) : invoked[j].step = n}
AppliedOnce(n, arg) == \E j \in 1..Len(invoked) : AppliedAt(n) = {j} /\ invoked[j].arg = arg
AllThen == \A n \in 1..Len(chain) : chain[n].method = "then"
FailedSteps == {n \in StepsDone : trail[n].tag = "Ok" /\ trail[n + 1].tag = "Err"}

\* C14: the combinators pass the other variant through untouched: on Err(e)
\* map(f) and then(f) return Err(e) without invoking f, on Ok(v) map_err(f)
\* returns Ok(v) without invoking f; on Ok(v) map(f) returns Ok(f(v)) and
\* then(f) returns f(v), on Err(e) map_err(f) returns Err(f(e)); a chain of
\* then-steps returns the error of its first failing step and runs no later
\* step.
C14_Combinators ==
    /\ \A n \in StepsDone :
          LET self == trail[n]
              out == trail[n + 1]
              f == chain[n].func
          IN IF chain[n].method = "map"
             THEN IF self.tag = "Err" THEN out = self /\ AppliedAt(n) = {}
                  ELSE out = Ok(f[self.value]) /\ AppliedOnce(n, self.value)
             ELSE IF chain[n].method = "map_err"
             THEN IF self.tag = "Ok" THEN out = self /\ AppliedAt(n) = {}
                  ELSE out = Err(f[self.error]) /\ AppliedOnce(n, self.error)
             ELSE IF self.tag = "Err" THEN out = self /\ AppliedAt(n) = {}
                  ELSE out = f[self.value] /\ AppliedOnce(n, self.value)
    /\ (rpc = "done" /\ chain # <<>> /\ AllThen /\ FailedSteps # {}) =>
          /\ trail[Len(trail)] = trail[Min(FailedSteps) + 1]
          /\ \A j \in 1..Len(invoked) : invoked[j].step <= Min(FailedSteps)

C14_Witness ==
    /\ rpc = "done" /\ Len(chain) = 2 /\ AllThen
    /\ trail[1].tag = "Ok" /\ FailedSteps = {1}
    /\ chain[2].func[IntV(0)].tag = "Ok" /\ chain[2].func[IntV(1)].tag = "Ok"
    /\ Len(invoked) = 1 /\ trail[3] = trail[2]

(***************************************************************************)
(* Properties of the command line.                                         *)
(***************************************************************************)
\* C15: the parser built by create_parser() called with no arguments accepts
\* --version: parsing <<"--version">> exits with status 0.
C15_VersionExitsZero ==
    (apc \in {"failed", "done"} /\ cli_config = NoArgument /\ argv = <<"--version">>) =>
        /\ ~IsRaise(arg_parser)
        /\ namespace = SystemExit(0)

(***************************************************************************)
(* Properties of the record and container parsers.                         *)
(***************************************************************************)
RecordDecode == RawDecode /\ target.t = "class" /\ input.k = "dict"

\* C16: the decoder takes the declared fields in declaration order and stops
\* at the first present field whose value fails to decode: it returns an Err
\* that is this field's breadcrumb followed by the nested error unmodified,
\* whatever the later fields hold, and the constructor is not called.
C16_FirstFailingField ==
    (RecordDecode /\ FailingFields # {}) =>
        /\ FieldResult(Min(FailingFields)).tag = "Err"
        /\ outcome = Err(<<"Parsing field '">> \o Hints[Min(FailingFields)].name \o <<"': ">>
                         \o FieldResult(Min(FailingFields)).error)
        /\ ~ctor_args.called

ListDecode == RawDecode /\ target.t = "list" /\ FullySupported(target)
ItemsExample == Dict1("items", ListV(<<IntV(1), StrV(<<"x">>), IntV(3)>>))

\* C17: decoding against list<E> returns a shape Err for an input that is
\* not a sequence; for a sequence it returns Ok of the decoded elements in
\* input order when all of them decode, and otherwise the Err of the lowest
\* failing index, prefixed with that index, and no later failure; {"items":
\* [1, "x", 3]} against {items: list<int>} fails at index 1 with the nested
\* error "Expected int but found str".
C17_ListDecode ==
    /\ (ListDecode /\ input.k # "list") =>
          outcome.tag = "Err" /\ StartsWith(outcome.error, <<"Expected ">>)
    /\ (ListDecode /\ input.k = "list" /\ FailingElements = {}) =>
          outcome = Ok(ListV([i \in 1..Len(input.l) |-> ElementResult(i).value]))
    /\ (ListDecode /\ input.k = "list" /\ FailingElements # {}) =>
          /\ ElementResult(Min(FailingElements)).tag = "Err"
          /\ outcome = Err(<<"At index ">> \o IntStr(Min(FailingElements) - 1) \o <<": ">>
                           \o ElementResult(Min(FailingElements)).error)
    /\ (RawDecode /\ target = ClassT("Items") /\ input = ItemsExample) =>
          outcome = Err(<<"Parsing field '", "items", "': ", "At index ", "1", ": ",
                          "Expected ", "int", " but found ", "str">>)

DictDecode == RawDecode /\ target.t = "dict" /\ FullySupported(target)
DistinctKeys == \A i, j \in 1..Len(input.d) : KeyResult(i).value = KeyResult(j).value => i = j

\* C18: decoding against dict<K,V> returns a shape Err for an input that is
\* not a mapping; for a mapping it returns Ok of the decoded pairs if and only
\* if every key decodes under K and every value under V; otherwise it returns
\* the Err of the first entry with a failure: a key-name error when the key
\* of that entry fails (even if its value fails too), a value error when only
\* its value fails.
C18_DictDecode ==
    /\ (DictDecode /\ input.k # "dict") =>
          outcome.tag = "Err" /\ StartsWith(outcome.error, <<"Expected ">>)
    /\ (DictDecode /\ input.k = "dict" /\ FailingEntries = {}) =>
          /\ outcome.tag = "Ok"
          /\ outcome.value.k = "dict"
          /\ \A i \in 1..Len(input.d) : HasKey(outcome.value.d, KeyResult(i).value)
          /\ DistinctKeys =>
                outcome.value.d = [i \in 1..Len(input.d) |-> Entry(KeyResult(i).value, ValResult(i).value)]
    /\ (DictDecode /\ input.k = "dict" /\ FailingEntries # {}) =>
          IF KeyResult(Min(FailingEntries)).tag # "Ok"
          THEN /\ KeyResult(Min(FailingEntries)).tag = "Err"
               /\ outcome = Err(<<"Parsing key name ">> \o PyStr(input.d[Min(FailingEntries)].key)
                                \o <<": ">> \o KeyResult(Min(FailingEntries)).error)
          ELSE /\ ValResult(Min(FailingEntries)).tag = "Err"
               /\ outcome = Err(<<"Parsing key ">> \o PyStr(input.d[Min(FailingEntries)].key)
                                \o <<": ">> \o ValResult(Min(FailingEntries)).error)

DecimalDecode == Decoded /\ target = DecimalT

\* C19: decoding against Decimal accepts only JSON strings: any other input,
\* a JSON integer or float included, returns a shape Err and never a decimal;
\* a string that denotes a decimal yields Ok of exactly that decimal, so the
\* encoder's string form of a decimal d decodes to Ok(d).
C19_DecimalDecode ==
    /\ (DecimalDecode /\ input.k # "str") =>
          outcome = Err(<<"Expected ", "str", " but found ", TypeName(input)>>)
    /\ (DecimalDecode /\ outcome.tag = "Ok") => input.k = "str" /\ outcome.value.k = "Decimal"
    /\ (DecimalDecode /\ input = StrV(<<"1", ".", "5">>)) => outcome = Ok(DecV(0, <<1, 5>>, -1))
    /\ DecimalDecode => \A d \in Decimals : input = StrV(DecimalStr(d)) => outcome = Ok(d)
    /\ (DecimalDecode /\ value # NoValue) => input \in to_json(value) /\ outcome = Ok(value)

C19_Witness ==
    /\ DecimalDecode /\ value = DecV(0, <<1>>, -7)
    /\ input = StrV(<<"1", "E", "-", "7">>) /\ outcome = Ok(value)

SetDecode == RawDecode /\ target.t = "set" /\ FullySupported(target) /\ input.k = "list"
AsList == parse_list(input, ElementType, options)
SameMembers(l, e) ==
    /\ \A i \in 1..Len(l) : \E y \in e : PyEq(l[i], y)
    /\ \A y \in e : \E i \in 1..Len(l) : PyEq(l[i], y)

\* C20: decoding a sequence against set<E> succeeds exactly when decoding it
\* against list<E> succeeds, and then returns the set of the distinct decoded
\* elements (the members of the list, duplicates collapsed); duplicates never
\* produce an Err; encoding the decoded set gives back its members.
C20_SetDecode ==
    SetDecode =>
        /\ (outcome.tag = "Ok") <=> (AsList.tag = "Ok")
        /\ AsList.tag = "Ok" =>
              /\ outcome.value.k = "set"
              /\ SameMembers(AsList.value.l, outcome.value.e)
              /\ \A j \in to_json(outcome.value) :
                    /\ ~IsRaise(j)
                    /\ {j.l[i] : i \in 1..Len(j.l)} = UNION {to_json(x) : x \in outcome.value.e}

LiteralDecode == RawDecode /\ target.t = "Literal"
LiteralMatches == {i \in 1..Len(target.args) : input = target.args[i]}

\* C21: decoding against a literal type returns Ok(v) if and only if the
\* input v has the runtime shape of, and is equal to, exactly one allowed
\* literal, and an Err otherwise; true against the literal type of the
\* integer 1 is rejected; an input matching no literal is rejected with a
\* message that lists each mismatch.
C21_LiteralDecode ==
    LiteralDecode =>
        /\ (outcome.tag = "Ok") <=> (Cardinality(LiteralMatches) = 1)
        /\ outcome.tag = "Ok" => outcome.value = input
        /\ outcome.tag # "Ok" => outcome.tag = "Err"
        /\ (target = LiteralT(<<IntV(1)>>) /\ input = BoolV(TRUE)) => outcome.tag = "Err"
        /\ (LiteralMatches = {} /\ outcome.tag = "Err") =>
              \A i \in 1..Len(target.args) :
                  input.k = target.args[i].k =>
                      Contains(outcome.error, <<"Value mismatch. Expected ">> \o PyStr(target.args[i])
                                               \o <<", found ">> \o PyStr(input))
TypeResolved == tpc = "done" /\ generic # NoValue
HintsResolved == tpc = "done" /\ concrete # NoValue

\* C22: type resolution never fails: concrete_type returns Ok for every
\* binding map and type expression, an unbound generic parameter resolving
\* to Any; so concrete_type_hints never raises UnboundTypeVar (the decoder's
\* "When decoding ..." error is unreachable).
C22_ResolutionNeverFails ==
    /\ TypeResolved =>
          /\ resolved.tag = "Ok"
          /\ (generic.t = "TypeVar" /\ ~HasKey(bound, generic)) => resolved = Ok(AnyT)
    /\ HintsResolved => ~(IsRaise(resolved) /\ resolved.exc = "UnboundTypeVar")

\* the declared type with the i-th parameter replaced, at any depth, by the
\* i-th argument, or by Any when there is no i-th argument
RECURSIVE Substituted(_, _, _)
Substituted(ty, params, args) ==
    IF "t" \notin DOMAIN ty THEN ty
    ELSE IF ty.t = "TypeVar"
    THEN (IF \E i \in 1..Len(args) : params[i] = ty
          THEN args[CHOOSE i \in 1..Len(args) : params[i] = ty]
          ELSE AnyT)
    ELSE IF ty.t = "arglist"
    THEN [ty EXCEPT !.items = [i \in 1..Len(ty.items) |-> Substituted(ty.items[i], params, args)]]
    ELSE IF "args" \in DOMAIN ty /\ ty.args # <<>>
    THEN (LET inner == [i \in 1..Len(ty.args) |-> Substituted(ty.args[i], params, args)]
          IN IF ty.t \in {"Union", "UnionType"} THEN UnionOf(ty.t, inner)
             ELSE [ty EXCEPT !.args = inner])
    ELSE ty

DeclaredHints == get_type_hints(concrete.name)
ExpectedHints ==
    [i \in 1..Len(DeclaredHints) |->
        Entry(DeclaredHints[i].name,
              Substituted(DeclaredHints[i].type, get_type_parameters(ClassT(concrete.name)),
                          get_type_arguments(concrete)))]

\* C23: for a generic record with parameters P1..Pn referenced with k <= n
\* type arguments A1..Ak, concrete_type_hints maps every field name to its
\* declared type with each Pi replaced, at any depth, by Ai when i <= k and
\* by Any when i > k; a field that mentions no parameter is mapped
\* unchanged; a record with no fields yields the empty map.
C23_ConcreteTypeHints ==
    HintsResolved => resolved = Ok(ExpectedHints)
\* C24: when two or more union members decode the input, the ambiguity Err
\* names every successful interpretation: the string form of each success
\* value appears in the message.
C24_AmbiguityNamesSuccesses ==
    (RawDecode /\ target.t = "Union" /\ Cardinality(MemberOks) >= 2) =>
        /\ outcome.tag = "Err"
        /\ \A i \in MemberOks : Contains(outcome.error, PyStr(MemberResults[i].value))
Retrying == ypc # "idle"
Retried == ypc = "done"
AllRaised(excs) == \A i \in 1..Len(awaited) : awaited[i].do = "raise" /\ excs[awaited[i].exc]
AnyError == [e \in {o.exc : o \in {a \in ActionOutcomes : a.do = "raise"}} |-> TRUE]
OnlyExceptions == [e \in {o.exc : o \in {a \in ActionOutcomes : a.do = "raise"}} |-> IsException(e)]

\* the parts of C25 that do not depend on which exceptions the loop catches
RetryRules ==
    /\ Retrying => Len(awaited) <= (IF max_retries <= 0 THEN 0 ELSE max_retries)
    /\ (Retried /\ retried.kind = "returned") =>
          /\ awaited # <<>>
          /\ awaited[Len(awaited)] = Responds(retried.value)
          /\ \A i \in 1..(Len(awaited) - 1) : awaited[i].do = "raise"
    /\ (Retrying /\ \E i \in 1..Len(awaited) : awaited[i].do = "return") =>
          /\ Retried /\ retried.kind = "returned"
          /\ awaited[Len(awaited)].do = "return"

Exhausted(excs) ==
    (Retried /\ max_retries >= 1 /\ Len(awaited) = max_retries /\ AllRaised(excs)) =>
        /\ retried.kind = "propagated"
        /\ retried.exc.cls = "RuntimeError"
        /\ retried.exc.cause = awaited[Len(awaited)].exc

\* C25 (as claimed): retrying_on_failure makes at most max_retries
\* invocations (none when max_retries <= 0); it returns the response of the
\* first invocation that does not raise and invokes no more; when all
\* max_retries invocations raise it raises a RuntimeError whose cause is the
\* last error; it returns no response that no invocation produced.
C25_RetryAsClaimed == RetryRules /\ Exhausted(AnyError)

\* C25 (amended): the same, with the RuntimeError raised when all max_retries
\* invocations raise an Exception; an error that derives from BaseException
\* only (asyncio.CancelledError) is not caught: it propagates from the
\* invocation that raised it and no further invocation is made; with
\* max_retries <= 0 the RuntimeError has no cause.
C25_Retry ==
    /\ RetryRules
    /\ Exhausted(OnlyExceptions)
    /\ (Retried /\ awaited # <<>> /\ awaited[Len(awaited)].do = "raise"
           /\ ~IsException(awaited[Len(awaited)].exc)) =>
          retried = Propagated(awaited[Len(awaited)].exc)
    /\ (Retried /\ max_retries <= 0) =>
          /\ awaited = <<>>
          /\ retried = Propagated(RuntimeError(<<"Retries exhausted without an error">>, NoneV))

C25_Witness ==
    /\ Retried /\ max_retries = 2
    /\ awaited = <<Raises(OtherError("ValueError", <<"e1">>)), Responds(StrV(<<"r2">>))>>
    /\ retried = Responded(StrV(<<"r2">>))
Flowing == fpc # "idle"
CheckOrder ==
    <<"validate_action", "validate_api_key", "validate_git_repo", "get_staged_diff", "generate_message">>

\* C26: execute_commit_flow runs its checks in the order action is
\* "generate", API key present, working directory is a git repository,
\* staged diff non-empty; the first failing check's error is returned and no
\* later check runs; the LLM generation is invoked only after the four checks
\* passed; the prompt is shown only after a non-empty message was generated.
C26_ChecksInOrder ==
    Flowing =>
        /\ \A i \in 1..Min({Len(log), 5}) : log[i].op = CheckOrder[i]
        /\ \A i \in 1..Min({Len(log), 4}) :
              log[i].result.tag # "Ok" =>
                  Len(log) = i /\ fpc = "done" /\ flow_result = log[i].result
        /\ Len(log) >= 5 =>
              /\ flow_action = <<"generate">>
              /\ environ # NoneV /\ environ.s # <<>>
              /\ log[3].result = Ok(getcwd)
              /\ log[4].result.tag = "Ok" /\ Strip(log[4].result.value) # <<>>
        /\ \A i \in 1..Len(log) :
              log[i].op = "select_option" =>
                  /\ i > 5
                  /\ log[5].result.tag = "Ok" /\ Strip(log[5].result.value) # <<>>

C26_Witness ==
    /\ fpc = "done" /\ Len(log) = 4
    /\ log[3].result.tag = "Ok"
    /\ log[4] = CallOf("get_staged_diff", Err(NoStagedChanges))
    /\ flow_result = Err(NoStagedChanges)

IsGit(e, cmd) == e.op = "git" /\ e.cmd = cmd
Chose(e, names) == e.op = "select_option" /\ e.raw \in {StrV(<<c>>) : c \in names}

\* C27: git commit runs only for the selections commit and commit_push; git
\* push runs only for commit_push and only after the git commit of that
\* selection exited with status 0; regenerate, adjust, cancel and an
\* unrecognised or missing selection (treated as cancel) run neither; a
\* failed commit or push ends the loop with a GitError.
C27_GitOnlyOnSelection ==
    Flowing =>
        \A i \in 1..Len(log) :
            /\ IsGit(log[i], "commit") =>
                  i > 1 /\ Chose(log[i - 1], {"commit", "commit_push"})
            /\ IsGit(log[i], "push") =>
                  /\ i > 2
                  /\ IsGit(log[i - 1], "commit") /\ log[i - 1].returncode = 0
                  /\ Chose(log[i - 2], {"commit_push"})
            /\ (log[i].op = "select_option" /\ ~Chose(log[i], {"commit", "commit_push"})) =>
                  (i = Len(log) \/ log[i + 1].op # "git")
            /\ (log[i].op = "select_option" /\ ~Chose(log[i], Selections \ {"cancel"})) =>
                  /\ i = Len(log) /\ fpc = "done"
                  /\ flow_result = Ok(CommandResponse(<<"cancelled">>, log[i].state.message,
                                                       <<"cancel">>, NoneV))
            /\ (log[i].op = "git" /\ log[i].returncode # 0) =>
                  /\ i = Len(log) /\ fpc = "done"
                  /\ flow_result.tag = "Err" /\ flow_result.error.cls = "GitError"

C27_Witness ==
    /\ fpc = "done" /\ Len(log) >= 3
    /\ IsGit(log[Len(log)], "push") /\ log[Len(log)].returncode = 0
    /\ IsGit(log[Len(log) - 1], "commit")
    /\ flow_result.tag = "Ok" /\ flow_result.value.message = <<"commit_push">>

LLMFailed(e) == e.op \in {"generate_message", "refine_message"} /\ e.result.tag = "Err"
NoAdjustment(e) == e.op = "text_input" /\ (e.result = NoneV \/ e.result.s = <<>>)

\* C28: across the calls of interaction_loop the api_key, cwd and diff of
\* the CommitState never change, and the message changes only when a
\* regenerate or adjust step returned a non-empty new message; after a
\* failed regeneration, a failed refinement or an empty adjustment text the
\* loop prompts again with the state unchanged; the loop returns only on
\* commit, commit_push, cancel or a git error.
C28_StateFrame ==
    [][fpc = "interaction_loop" =>
          LET new == SubSeq(log', Len(log) + 1, Len(log'))
              last == new[Len(new)]
          IN /\ fpc' = "interaction_loop" =>
                   /\ commit_state'.api_key = commit_state.api_key
                   /\ commit_state'.cwd = commit_state.cwd
                   /\ commit_state'.diff = commit_state.diff
                   /\ commit_state'.message # commit_state.message =>
                         /\ Chose(new[1], {"regenerate", "adjust"})
                         /\ last.op = (IF Chose(new[1], {"regenerate"}) THEN "generate_message"
                                        ELSE "refine_message")
                         /\ last.result = Ok(commit_state'.message)
                         /\ Strip(commit_state'.message) # <<>>
             /\ (new # <<>> /\ (LLMFailed(last) \/ NoAdjustment(last))) =>
                   fpc' = "interaction_loop" /\ commit_state' = commit_state
             /\ (fpc' = "done" /\ flow_result'.tag \in {"Ok", "Err"}) =>
                   /\ ~Chose(new[1], {"regenerate", "adjust"})
                   /\ flow_result'.tag = "Ok" =>
                         flow_result'.value.message \in {<<"commit">>, <<"commit_push">>, <<"cancelled">>}
                   /\ flow_result'.tag = "Err" => flow_result'.error.cls = "GitError"]_vars

C28_Witness ==
    /\ fpc = "interaction_loop" /\ rounds >= 1
    /\ log[Len(log)].op = "refine_message" /\ log[Len(log)].result = Ok(commit_state.message)
    /\ commit_state.message # log[5].result.value
    /\ commit_state.diff = locals.diff /\ commit_state.api_key = locals.api_key
Updating == upc # "idle"
MethodRank(method) == CASE method = "uv" -> 1 [] method = "pipx" -> 2 [] method = "pip" -> 3
Attempted(method) == \E i \in 1..Len(attempts) : attempts[i].method = method

\* C29: update_package attempts the methods in the order uv (only when
\* running from a uv tool install), pipx, pip; a later method is attempted
\* only if every earlier attempted method failed and none is attempted after
\* one succeeded; the result is Ok naming the first method that succeeded, or
\* the Err of the pip attempt when every attempted method failed.
C29_UpdateOrder ==
    Updating =>
        /\ \A i \in 1..Len(attempts) : \A j \in 1..(i - 1) :
              /\ MethodRank(attempts[j].method) < MethodRank(attempts[i].method)
              /\ attempts[j].result.tag = "Err"
        /\ Attempted("uv") => is_uv_tool_install(executable)
        /\ Attempted("pip") => Attempted("pipx")
        /\ (Attempted("pipx") /\ is_uv_tool_install(executable)) => Attempted("uv")
        /\ upc = "done" =>
              LET last == attempts[Len(attempts)]
              IN /\ attempts # <<>>
                 /\ last.result.tag = "Ok" => update_result = Ok(last.method)
                 /\ last.result.tag = "Err" =>
                       last.method = "pip" /\ update_result = Err(last.result.error)
        /\ upc # "done" => update_result = NoValue

C29_Witness ==
    /\ upc = "done" /\ Len(attempts) = 3
    /\ attempts[1].method = "uv" /\ attempts[1].result.tag = "Err"
    /\ attempts[2].method = "pipx" /\ attempts[2].result.error.exit_code = 127
    /\ attempts[3].method = "pip" /\ update_result = Ok("pip")
DeclaredKeys == {StrV(Hints[i].name) : i \in 1..Len(Hints)}
RECURSIVE OnlyDeclared(_)
OnlyDeclared(entries) ==
    IF entries = <<>> THEN <<>>
    ELSE IF Head(entries).key \in DeclaredKeys THEN <<Head(entries)>> \o OnlyDeclared(Tail(entries))
    ELSE OnlyDeclared(Tail(entries))
UndeclaredKeys == {StrV(<<key>>) : key \in FieldKeys \cup {"extra"}} \ DeclaredKeys

\* C30: the result of decoding a record depends only on the entries whose
\* keys are declared fields: removing, adding or changing the entries under
\* undeclared keys does not change the Result, and an unknown key produces
\* no Err.
C30_UndeclaredKeysIgnored ==
    (RecordDecode /\ input.k = "dict") =>
        /\ outcome = class_parser(target.name, DictV(OnlyDeclared(input.d)), options)
        /\ \A key \in UndeclaredKeys : \A v \in {IntV(1), NoneV, DictV(<<>>)} :
              outcome = class_parser(target.name, DictV(SetItem(input.d, key, v)), options)

C30_Witness ==
    /\ RecordDecode /\ input.k = "dict"
    /\ OnlyDeclared(input.d) # input.d /\ OnlyDeclared(input.d) # <<>>
    /\ outcome.tag = "Ok"
====
